---- MODULE Spec2Model ----
(***************************************************************************)
(* Aurora: the Timeline Data Engine of src/src/AuroraApp.jsx.              *)
(*   parseNOAAData            the telemetry normalizer                     *)
(*   generateSimulatedTimeline the synthetic fallback                      *)
(*   TimelinePlayer           fetchLive, getCurrent, advance, seekTo,      *)
(*                            togglePause                                  *)
(*                                                                         *)
(* Numbers.  A JS Number is modelled by an integer: a finite value v of a  *)
(* plasma, field or index scalar is the integer v * Unit, an X-ray flux f  *)
(* is f * 10^10.  Arithmetic results are rounded to MantBits significant   *)
(* bits, ties to even, as IEEE-754 rounds to 53.  Three codes outside the  *)
(* finite range stand for NaN, +Infinity and -Infinity.  Telemetry values   *)
(* are even integers: the spare binary digit makes halving a difference    *)
(* exact, as it is in binary floating point.                               *)
(***************************************************************************)
EXTENDS Integers, Sequences, FiniteSets, TLC

VARIABLES
    \* the fields of the TimelinePlayer
    timeline, index, isLive, loading, error, currentTime, progress, paused,
    \* fetchLive() calls suspended at an await, and what the last call returned
    pending, ret,
    \* the calls since the cursor was last placed: where it was placed (base),
    \* the advance() calls made since then unpaused (run) and paused (still),
    \* how many of them signalled a wrap (loops), and whether the pause that
    \* ended at base saw MaxStill calls (fullPause)
    base, run, loops, still, fullPause,
    \* the normalizer's payloads and result
    plasmaIn, magIn, kpIn, xrayIn, parsed,
    \* the fields of the SonEngine: on, the audio nodes (voices), _lastPluck and
    \* _lastBell
    on, voices, lastPluck, lastBell,
    \* start() calls suspended at await Tone.start(), the audio nodes allocated
    \* and not disposed, the number of allocations so far, the audio clock
    \* (Tone.now()), the last call on the engine, and the clock at the last
    \* bell trigger (or NoBell) and at the last pluck trigger (or NoPluck)
    starting, live, gens, now, son, bellAt, pluckAt,
    \* the calls on audio nodes that raise, each a pair <<node, method>>
    failing,
    \* the AuroraApp component: whether it is mounted ("no", "yes", "gone"),
    \* whether the experience was started, the tick counter of the data
    \* interval, dataRef.current, who wrote it last, whether the initial
    \* fetchLive() is outstanding, whether its then-callback is queued, and the
    \* last step of the component
    mounted, started, tickCount, dataRef, writer, firstFetch, thenReady, app,
    \* the render pipeline buildScene() sets up: whether it is there ("none",
    \* "live", "cleaned"), the GPU resources allocated and not released, whether
    \* an animation frame is requested, the smoothed state sm, the value of one
    \* channel of one pixel of the trail buffer last written, the render ticks
    \* so far, and the last step of the pipeline
    scene, gpu, raf, sm, trail, frames, scn,
    \* the render targets trailRead and trailWrite refer to, and how many times
    \* the camera (camCurrent) and the stream particles (sp) have been moved
    trailRead, trailWrite, camCurrent, sp

playerVars == <<timeline, index, isLive, loading, error, currentTime, progress, paused>>
callVars == <<pending, ret>>
historyVars == <<base, run, loops, still, fullPause>>
parseVars == <<plasmaIn, magIn, kpIn, xrayIn, parsed>>
sonVars == <<on, voices, lastPluck, lastBell, starting, live, gens, now, son, bellAt, pluckAt>>
\* what lies outside the TimelinePlayer, and outside the normalizer
envVars == <<failing>>
appVars == <<mounted, started, tickCount, dataRef, writer, firstFetch, thenReady, app>>
sceneVars == <<scene, gpu, raf, sm, trail, frames, scn, trailRead, trailWrite, camCurrent, sp>>
outsideVars == <<parseVars, sonVars, envVars, appVars, sceneVars>>
offParseVars == <<sonVars, envVars, appVars, sceneVars>>
vars == <<playerVars, callVars, historyVars, parseVars, sonVars, envVars, appVars, sceneVars>>

----------------------------------------------------------------------------
(* JS Numbers *)

\* significand width of the modelled binary floating-point format
MantBits == 20

\* integer steps per physical unit (two grid steps per 1/50)
Unit == 2 * 50

PosInf == 2^30
NegInf == 0 - 2^30
NaN == 2^30 + 1

IsFinite(x) == x \notin {NaN, PosInf, NegInf}

Abs(x) == IF x < 0 THEN 0 - x ELSE x

RECURSIVE BitLen(_)
BitLen(n) == IF n = 0 THEN 0 ELSE 1 + BitLen(n \div 2)

\* round the exact integer result x to MantBits significant bits, ties to even
Fl(x) ==
    LET a == Abs(x)
        e == BitLen(a) - MantBits
    IN  IF a < 2^MantBits \/ e <= 0 THEN x
        ELSE LET q  == 2^e
                 lo == (a \div q) * q
                 r  == a - lo
                 up == lo + q
                 m  == IF 2 * r < q THEN lo
                       ELSE IF 2 * r > q THEN up
                       ELSE IF (lo \div q) % 2 = 0 THEN lo ELSE up
             IN  IF x < 0 THEN 0 - m ELSE m

\* a + b and a - b of two Numbers
FAdd(a, b) ==
    IF a = NaN \/ b = NaN THEN NaN
    ELSE IF a = PosInf THEN (IF b = NegInf THEN NaN ELSE PosInf)
    ELSE IF a = NegInf THEN (IF b = PosInf THEN NaN ELSE NegInf)
    ELSE IF ~IsFinite(b) THEN b
    ELSE Fl(a + b)

FNeg(a) == IF a = NaN THEN NaN ELSE IF a = PosInf THEN NegInf ELSE IF a = NegInf THEN PosInf ELSE 0 - a

FSub(a, b) == FAdd(a, FNeg(b))

\* nearest integer to the exact quotient n / d (d > 0), ties to even
RoundDiv(n, d) ==
    LET a  == Abs(n)
        lo == a \div d
        r  == a - lo * d
        m  == IF 2 * r < d THEN lo
              ELSE IF 2 * r > d THEN lo + 1
              ELSE IF lo % 2 = 0 THEN lo ELSE lo + 1
    IN  IF n < 0 THEN 0 - m ELSE m

\* a * (num / den) for a Number a and a fraction with 0 <= num, 0 < den
FMulFrac(a, num, den) ==
    IF a = NaN THEN NaN
    ELSE IF ~IsFinite(a) THEN (IF num = 0 THEN NaN ELSE a)
    ELSE Fl(RoundDiv(a * num, den))

----------------------------------------------------------------------------
(* JSON payloads.  A cell is what a row holds at one position; a time cell *)
(* is what it holds at position 0 (time_tag).                              *)

Num(v)   == [t |-> "num", v |-> v]      \* a numeral, e.g. "420.1"
Txt      == [t |-> "text", v |-> 0]     \* non-numeric text, e.g. "abc"
Empty    == [t |-> "empty", v |-> 0]    \* ""
Null     == [t |-> "null", v |-> 0]     \* null
Missing  == [t |-> "missing", v |-> 0]  \* the row is too short: undefined
InfTxt   == [t |-> "inf", v |-> 0]      \* "Infinity" (or a numeral that overflows, "1e999")

Time(s)  == [t |-> "time", v |-> s]     \* "YYYY-MM-DD HH:MM:SS", s seconds
NumTime  == [t |-> "numtime", v |-> 0]  \* a non-zero number where the time tag should be

Row(time, cells) == [isNull |-> FALSE, time |-> time, c |-> cells]
NullRow == [isNull |-> TRUE, time |-> Null, c |-> <<>>]

Payload(rows) == [kind |-> "array", rows |-> rows]
NullPayload == [kind |-> "null", rows |-> <<>>]      \* the body is JSON null
ObjectPayload == [kind |-> "object", rows |-> <<>>]  \* the body is a JSON object, {}

\* r[k], k >= 1
Cell(r, k) == IF k <= Len(r.c) THEN r.c[k] ELSE Missing

\* the nearest Number to a numeral; NaN when the text starts with no numeral
parseFloat(c) ==
    CASE c.t = "num" -> Fl(c.v)
      [] c.t = "inf" -> PosInf
      [] OTHER -> NaN

\* x || d
OrElse(x, d) == IF x = NaN \/ x = 0 THEN d ELSE x

\* a test that finds every time tag present
Falsy_never(tc) == FALSE

\* !r[0]
Falsy(tc) == tc.t \in {"empty", "null", "missing"}

\* r[0].substring(0, 16): the time tag cut to the minute
substring16(tc) == tc.v \div 60

----------------------------------------------------------------------------
(* parseNOAAData *)

\* the fallbacks of the primary loop
DefaultSpeed == 400 * Unit
DefaultDensity == 5 * Unit
DefaultTemp == 100000 * Unit
DefaultBt == 5 * Unit
\* let lastKp = 2; let lastXray = 1e-7
InitLastKp == 2 * Unit
InitLastXray == 1000

\* the rows a loop visits and does not skip: i from `first`, `if (!r || !r[0]) continue`
Visited(p, first) ==
    {i \in first..Len(p.rows) : ~p.rows[i].isNull /\ ~Falsy(p.rows[i].time)}

\* r[0].substring is not a function: a visited row whose time tag is no string
BadTimeTag(p, first) == \E i \in Visited(p, first) : p.rows[i].time.t = "numtime"

\* new Map() filled by map.set(key, val(r)) over the visited rows, in order:
\* the last row of a key wins
BuildMap(p, first, val(_)) ==
    LET vis  == Visited(p, first)
        keys == {substring16(p.rows[i].time) : i \in vis}
        last(k) == CHOOSE i \in vis :
                      /\ substring16(p.rows[i].time) = k
                      /\ \A j \in vis : substring16(p.rows[j].time) = k => j <= i
    IN  [k \in keys |-> val(p.rows[last(k)])]

magEntry(r) ==
    [bx |-> OrElse(parseFloat(Cell(r, 1)), 0),
     by |-> OrElse(parseFloat(Cell(r, 2)), 0),
     bz |-> OrElse(parseFloat(Cell(r, 3)), 0),
     bt |-> OrElse(parseFloat(Cell(r, 4)), 0)]

kpEntry(r) == OrElse(parseFloat(Cell(r, 1)), 0)

\* r.flux is the one cell of an xray object
xrayEntry(r) == OrElse(parseFloat(Cell(r, 1)), 0)

\* rows[1] is the header row, which the loops from i = 1 pass over
magMapOf(mag) == BuildMap(mag, 2, magEntry)
kpMapOf(kp) == BuildMap(kp, 2, kpEntry)
\* for (const r of xray), only if Array.isArray(xray)
xrayMapOf(xray) == IF xray.kind = "array" THEN BuildMap(xray, 1, xrayEntry) ELSE <<>>

\* magMap.get(key) || { bx: 0, by: 0, bz: 0, bt: 5 }
magGet(magMap, key) ==
    IF key \in DOMAIN magMap THEN magMap[key]
    ELSE [bx |-> 0, by |-> 0, bz |-> 0, bt |-> DefaultBt]

\* one pass of the primary loop body for row r
plasmaPoint(r, magMap, lastKp, lastXray) ==
    LET m == magGet(magMap, substring16(r.time))
    IN  [time |-> r.time.v,
         speed |-> OrElse(parseFloat(Cell(r, 2)), DefaultSpeed),
         density |-> OrElse(parseFloat(Cell(r, 1)), DefaultDensity),
         temp |-> OrElse(parseFloat(Cell(r, 3)), DefaultTemp),
         bt |-> m.bt, bz |-> m.bz, bx |-> m.bx, by |-> m.by,
         kp |-> lastKp,
         xray |-> lastXray]

\* a carried value that is forgotten on a miss
carry_forget(map, key, last) == IF key \in DOMAIN map THEN map[key] ELSE 0

\* if (map.has(key)) last = map.get(key)
carry(map, key, last) == IF key \in DOMAIN map THEN map[key] ELSE last

\* the primary loop over rows lo..hi, entered with the carried values `last`:
\* the points it pushes and the carried values it leaves (the range is split
\* in halves, the second half entered with what the first one leaves)
RECURSIVE primaryLoop(_, _, _, _, _, _, _)
primaryLoop(plasma, magMap, kpMap, xrayMap, lo, hi, last) ==
    IF lo > hi THEN [out |-> <<>>, last |-> last]
    ELSE IF lo = hi
    THEN LET r == plasma.rows[lo]
         IN  IF r.isNull \/ Falsy(r.time)
             THEN [out |-> <<>>, last |-> last]
             ELSE LET key == substring16(r.time)
                      k2  == carry(kpMap, key, last.kp)
                      x2  == carry(xrayMap, key, last.xray)
                  IN  [out |-> <<plasmaPoint(r, magMap, k2, x2)>>,
                       last |-> [kp |-> k2, xray |-> x2]]
    ELSE LET mid   == (lo + hi) \div 2
             left  == primaryLoop(plasma, magMap, kpMap, xrayMap, lo, mid, last)
             right == primaryLoop(plasma, magMap, kpMap, xrayMap, mid + 1, hi, left.last)
         IN  [out |-> left.out \o right.out, last |-> right.last]

\* TypeError: mag.length, kp.length or plasma.length of null, or a time tag
\* that has no substring method
parseThrows(plasma, mag, kp, xray) ==
    \/ mag.kind = "null" \/ BadTimeTag(mag, 2)
    \/ kp.kind = "null" \/ BadTimeTag(kp, 2)
    \/ (xray.kind = "array" /\ BadTimeTag(xray, 1))
    \/ plasma.kind = "null" \/ BadTimeTag(plasma, 2)

parseNOAAData(plasma, mag, kp, xray) ==
    IF parseThrows(plasma, mag, kp, xray)
    THEN [threw |-> TRUE, timeline |-> <<>>]
    ELSE [threw |-> FALSE,
          timeline |-> primaryLoop(plasma, magMapOf(mag), kpMapOf(kp), xrayMapOf(xray),
                                   2, Len(plasma.rows),
                                   [kp |-> InitLastKp, xray |-> InitLastXray]).out]

----------------------------------------------------------------------------
(* generateSimulatedTimeline *)

\* const points = 5000
points == 5000

\* seeds of Math.random(): each seed is one run of draws
NumSeeds == 1

\* the k-th draw of Math.random() under a seed, in hundredths: 0..99
Rand(seed, k) == (k * 37 + (k \div 7) * 13 + (k \div 97) * 29 + seed * 41) % 100

\* new Date(): the clock when the generator runs, in seconds
Now == 30 * 86400
weekAgo == Now - 7 * 24 * 60 * 60

\* storms: 2 + floor(random * 3) of them, each {center, width, intensity};
\* intensity in thousandths.  Storm j takes draws 3j-2 .. 3j, the count draw 0.
stormCount(seed) == 2 + (Rand(seed, 0) * 3) \div 100
storm(seed, j) ==
    [center |-> (Rand(seed, 3 * j - 2) * points) \div 100,
     width |-> 60 + 2 * Rand(seed, 3 * j - 1),
     intensity |-> 500 + 5 * Rand(seed, 3 * j)]

\* max over the storms with dist < 1 of (1 - dist * dist) * intensity, in thousandths
RECURSIVE stormFactorFrom(_, _, _, _)
stormFactorFrom(seed, i, j, acc) ==
    IF j > stormCount(seed) THEN acc
    ELSE LET s == storm(seed, j)
             d == Abs(i - s.center)
             f == IF d < s.width
                  THEN ((s.width * s.width - d * d) * s.intensity) \div (s.width * s.width)
                  ELSE 0
         IN  stormFactorFrom(seed, i, j + 1, IF f > acc THEN f ELSE acc)

stormFactor(seed, i) == stormFactorFrom(seed, i, 1, 0)

\* Math.max(lo, Math.min(hi, v))
clamp(lo, hi, v) == IF v > hi THEN (IF hi < lo THEN lo ELSE hi) ELSE IF v < lo THEN lo ELSE v

\* v += (random - bias) * step + stormFactor * gain, then clamped to [lo, hi]:
\* r the draw and bias in hundredths, step and gain in grid steps per hundred
\* resp. per thousand, sf in thousandths
walk(v, r, bias, step, sf, gain, lo, hi) ==
    clamp(lo, hi,
          FAdd(v, FAdd(2 * RoundDiv((r - bias) * step, 200), 2 * RoundDiv(sf * gain, 2000))))

\* let speed = 380, density = 5, temp = 120000, bt = 6, bz = 1, bx = 0, by = 2, kp = 2, xray = 2e-7
simStart ==
    [time |-> weekAgo, speed |-> 380 * Unit, density |-> 5 * Unit, temp |-> 120000 * Unit,
     bt |-> 6 * Unit, bz |-> 1 * Unit, bx |-> 0, by |-> 2 * Unit, kp |-> 2 * Unit, xray |-> 2000]

\* the body of the loop for point i (0-based), from the running values p
simStep(seed, i, p) ==
    LET sf == stormFactor(seed, i)
        d(j) == Rand(seed, 13 + 9 * i + j)
    IN  [time |-> weekAgo + (i * 7 * 24 * 60 * 6) \div (points \div 10),
         speed |-> walk(p.speed, d(0), 48, 8 * Unit, sf, 15 * Unit, 280 * Unit, 900 * Unit),
         density |-> walk(p.density, d(1), 48, 80, sf, 2 * Unit, Unit \div 2, 40 * Unit),
         temp |-> walk(p.temp, d(2), 50, 8000 * Unit, 0, 0, 20000 * Unit, 500000 * Unit),
         bt |-> walk(p.bt, d(3), 48, 60, sf, 150, 1 * Unit, 35 * Unit),
         bz |-> walk(p.bz, d(4), 52, 120, 0 - sf, 2 * Unit, (0 - 25) * Unit, 15 * Unit),
         bx |-> walk(p.bx, d(5), 50, 80, 0, 0, (0 - 12) * Unit, 12 * Unit),
         by |-> walk(p.by, d(6), 50, 80, 0, 0, (0 - 12) * Unit, 12 * Unit),
         kp |-> walk(p.kp, d(7), 48, 15, sf, 40, 0, 9 * Unit),
         xray |-> walk(p.xray, d(8), 48, 1000, sf, 3000, 100, 1000000)]

\* points lo..hi of the loop, from the running values p (in halves, to keep
\* the nesting shallow)
RECURSIVE simLoop(_, _, _, _)
simLoop(seed, lo, hi, p) ==
    IF lo > hi THEN <<>>
    ELSE IF lo = hi THEN <<simStep(seed, lo, p)>>
    ELSE LET mid  == (lo + hi) \div 2
             left == simLoop(seed, lo, mid, p)
         IN  left \o simLoop(seed, mid + 1, hi, left[Len(left)])

generateSimulatedTimeline(seed) == simLoop(seed, 0, points - 1, simStart)

\* the timelines the generator can return
simulated == [seed \in 1..NumSeeds |-> generateSimulatedTimeline(seed)]

----------------------------------------------------------------------------
(* TimelinePlayer: the state after `new TimelinePlayer()` *)

\* this.currentTime = "" (a time field holds seconds, never a negative number)
\* this.timeline holds a reference to an array that nothing mutates after it
\* is built: the empty array of the constructor, the array the try block of
\* fetchLive builds from a response, or the array the generator returns
NoPoints == [from |-> "constructor", id |-> "", seed |-> 0]
Parsed(kind) == [from |-> "parseNOAAData", id |-> kind, seed |-> 0]
Generated(seed) == [from |-> "generateSimulatedTimeline", id |-> "", seed |-> seed]

NoTime == 0 - 1
\* this.error = null
NoError == "null"

\* what a call returned: getCurrent a sample or null, the others a boolean or nothing
NullSample == [isNull |-> TRUE]
\* the step taken last: the method, the fraction it was passed or the
\* response it got, the boolean it returned (for getCurrent, whether it
\* returned a sample) and the sample
NoFraction == <<0, 1>>
Returned(op, f, kind, ok, sample) ==
    [op |-> op, f |-> f, kind |-> kind, ok |-> ok, sample |-> sample]
Nothing == Returned("none", NoFraction, "", FALSE, NullSample)

constructor ==
    /\ timeline = NoPoints
    /\ index = 0
    /\ isLive = FALSE
    /\ loading = TRUE
    /\ error = NoError
    /\ currentTime = NoTime
    /\ progress = <<0, 1>>
    /\ paused = FALSE
    /\ pending = 0
    /\ ret = Nothing
    /\ base = 0 /\ run = 0 /\ loops = 0 /\ still = 0 /\ fullPause = FALSE

\* the cursor is placed at b: a new count of calls begins
Placed(b, full) ==
    /\ base' = b /\ run' = 0 /\ loops' = 0 /\ still' = 0 /\ fullPause' = full

----------------------------------------------------------------------------
(* SonEngine: the engine as constructed *)

\* the audio nodes start() allocates, in order
NodeNames == <<"master", "reverb", "delay", "chorus", "breathLFO", "wind", "bzPad", "pluck",
               "noiseFilter", "noise", "bell", "sub", "shimmer">>

Range(f) == {f[i] : i \in DOMAIN f}

\* a field that has not been assigned
Undefined == 0 - 1

\* no bell has been triggered
NoBell == 0 - 1

\* no pluck has been triggered
NoPluck == 0 - 1

NoCall == [op |-> "none"]

\* constructor() { this.on = false; }, and the audio context as created
SonEngine ==
    /\ on = FALSE
    /\ voices = [n \in Range(NodeNames) |-> 0]
    /\ lastPluck = Undefined
    /\ lastBell = Undefined
    /\ starting = 0
    /\ live = {}
    /\ gens = 0
    /\ now = 0
    /\ son = NoCall
    /\ bellAt = NoBell
    /\ pluckAt = NoPluck

\* no render target: buildScene() has not run
NoTarget == "none"

\* no smoothed state: buildScene() has not run
NoSm == [speed |-> 0, density |-> 0, bz |-> 0, bt |-> 0, kp |-> 0]

\* the AuroraApp component before it mounts: dataRef.current is null, no scene
AuroraApp ==
    /\ mounted = "no" /\ started = FALSE /\ tickCount = 0 /\ dataRef = NullSample
    /\ writer = "none" /\ firstFetch = FALSE /\ thenReady = FALSE /\ app = NoCall
    /\ scene = "none" /\ gpu = {} /\ raf = FALSE /\ sm = NoSm /\ trail = 0 /\ frames = 0
    /\ scn = NoCall
    /\ trailRead = NoTarget /\ trailWrite = NoTarget /\ camCurrent = 0 /\ sp = 0

----------------------------------------------------------------------------
(* The normalizer on bounded payloads: SpecParse draws the four payloads,  *)
(* then applies parseNOAAData once.                                        *)

\* data rows of the primary series in a drawn payload
MaxRows == 3

Header == Row(Txt, <<Txt, Txt, Txt, Txt>>)

\* the tokens a numeric cell is drawn from
CellTokens == {Num(7 * Unit), Num(0), Txt, Empty, Null, Missing, InfTxt}

\* row i of the primary series, 30 s into minute i
GoodPlasma(i) == Row(Time(60 * i + 30), <<Num((5 + i) * Unit), Num((400 + 10 * i) * Unit), Num((90000 + i) * Unit)>>)
GoodMag(i) == Row(Time(60 * i), <<Num(i * Unit), Num((0 - 3) * Unit), Num((0 - i) * Unit), Num((4 + i) * Unit)>>)

RowsOf(n, row(_)) == [i \in 1..n |-> row(i)]

\* the rows f[i], i in S, in ascending order from i on
RECURSIVE RowsFrom(_, _, _)
RowsFrom(S, i, f) ==
    IF i > MaxRows THEN <<>>
    ELSE (IF i \in S THEN <<f[i]>> ELSE <<>>) \o RowsFrom(S, i + 1, f)

RowsAt(S, row(_)) == RowsFrom(S, 1, [i \in S |-> row(i)])

PlasmaBasic == {Payload(<<Header>> \o RowsOf(MaxRows, GoodPlasma))}

PlasmaInputs ==
    {Payload(<<Header>> \o RowsOf(n, GoodPlasma)) : n \in 0..MaxRows}
    \cup {Payload(<<Header, Row(Time(90), <<a, b, c>>)>> \o RowsAt(2..MaxRows, GoodPlasma)) :
              a \in CellTokens, b \in CellTokens, c \in CellTokens}
    \cup {Payload(<<Header, GoodPlasma(1), r, GoodPlasma(3)>>) :
              r \in {NullRow, Row(Empty, <<Num(Unit), Num(Unit), Num(Unit)>>),
                     Row(NumTime, <<Num(Unit), Num(Unit), Num(Unit)>>), Row(Time(95), <<>>)}}
    \cup {NullPayload, ObjectPayload}

MagBasic == {Payload(<<Header>> \o RowsOf(MaxRows, GoodMag)), Payload(<<Header, GoodMag(2)>>)}

\* GoodMag(1) with cell k replaced by c
MagWith(k, c) == Row(Time(60), [GoodMag(1).c EXCEPT ![k] = c])

MagInputs ==
    {Payload(<<Header>> \o RowsAt(S, GoodMag)) : S \in SUBSET (1..MaxRows)}
    \cup {Payload(<<Header, MagWith(k, c), GoodMag(2)>>) : k \in 1..4, c \in CellTokens}
    \cup {Payload(<<Header, Row(Time(60), <<c, c, c, c>>)>>) : c \in CellTokens}
    \cup {Payload(<<Header, GoodMag(1), Row(Time(61), <<Txt, Num(Unit), Num(Unit)>>)>>),
          Payload(<<Header, NullRow, Row(NumTime, <<>>)>>),
          NullPayload, ObjectPayload}

KpCells == {Num(3 * Unit), Num(5 * Unit), Txt, Missing}
KpRow(i, c) == Row(Time(60 * i), <<c>>)

\* every choice of the minutes that have an index reading, and of each reading
KpPayloads(S) ==
    IF S = {} THEN {Payload(<<Header>>)}
    ELSE {Payload(<<Header>> \o RowsAt(S, LAMBDA i : KpRow(i, f[i]))) : f \in [S -> KpCells]}

KpInputs ==
    UNION {KpPayloads(S) : S \in SUBSET (1..MaxRows)}
    \cup {Payload(<<Header, KpRow(1, Num(3 * Unit)), KpRow(1, Num(5 * Unit))>>),
          Payload(<<Header, NullRow, Row(NumTime, <<>>)>>),
          NullPayload, ObjectPayload}

KpBasic == {Payload(<<Header>>), Payload(<<Header, KpRow(1, Num(3 * Unit))>>)}

XrayCells == {Num(2000), Num(9000), Null, InfTxt}
XrayRow(i, c) == Row(Time(60 * i + 5), <<c>>)

XrayPayloads(S) ==
    IF S = {} THEN {Payload(<<>>)}
    ELSE {Payload(RowsAt(S, LAMBDA i : XrayRow(i, f[i]))) : f \in [S -> XrayCells]}

XrayInputs ==
    UNION {XrayPayloads(S) : S \in SUBSET (1..MaxRows)}
    \cup {Payload(<<NullRow, Row(Empty, <<Num(2000)>>), XrayRow(2, Num(9000))>>),
          Payload(<<Row(NumTime, <<Num(2000)>>)>>),
          NullPayload, ObjectPayload}

XrayBasic == {Payload(<<>>), Payload(<<XrayRow(2, Num(9000))>>)}

NotParsed == [done |-> FALSE, threw |-> FALSE, timeline |-> <<>>]

InitParse ==
    /\ constructor
    /\ SonEngine
    /\ AuroraApp
    /\ failing = {}
    /\ parsed = NotParsed
    /\ \/ plasmaIn \in PlasmaInputs /\ magIn \in MagBasic /\ kpIn \in KpBasic /\ xrayIn \in XrayBasic
       \/ plasmaIn \in PlasmaBasic /\ magIn \in MagInputs /\ kpIn \in KpBasic /\ xrayIn \in XrayBasic
       \/ plasmaIn \in PlasmaBasic /\ magIn \in MagBasic /\ kpIn \in KpInputs /\ xrayIn \in XrayBasic
       \/ plasmaIn \in PlasmaBasic /\ magIn \in MagBasic /\ kpIn \in KpBasic /\ xrayIn \in XrayInputs

\* const tl = parseNOAAData(plasma, mag, kp, xray)
Parse ==
    /\ ~parsed.done
    /\ parsed' = [done |-> TRUE] @@ parseNOAAData(plasmaIn, magIn, kpIn, xrayIn)
    /\ UNCHANGED <<plasmaIn, magIn, kpIn, xrayIn, playerVars, callVars, historyVars,
                   offParseVars>>

NextParse == Parse

SpecParse == InitParse /\ [][NextParse]_vars

----------------------------------------------------------------------------
(* Claims about parseNOAAData (SpecParse) *)

RECURSIVE Ascending(_)
Ascending(S) ==
    IF S = {} THEN <<>>
    ELSE LET m == CHOOSE x \in S : \A y \in S : x <= y
         IN  <<m>> \o Ascending(S \ {m})

Max(S) == CHOOSE x \in S : \A y \in S : y <= x

Emitted == parsed.done /\ ~parsed.threw

\* the primary rows that emit a point, in input order, and the minute of the k-th
PrimaryRows == Ascending(Visited(plasmaIn, 2))
PrimaryKey(k) == substring16(plasmaIn.rows[PrimaryRows[k]].time)

\* the emitted points up to the k-th whose minute has a reading in map
Matches(map, k) == {j \in 1..k : PrimaryKey(j) \in DOMAIN map}

\* the value point k must carry: that of the latest match, else the initial one
Carried(map, k, initial) ==
    IF Matches(map, k) = {} THEN initial ELSE map[PrimaryKey(Max(Matches(map, k)))]

\* C8: every emitted point carries the kp and the xray value of the most recent
\* primary sample that matched a reading, however many samples ago that was,
\* and the initial default (kp 2, xray 1e-7) only before the first match.
C8_CarryForward ==
    Emitted =>
        /\ Len(parsed.timeline) = Len(PrimaryRows)
        /\ \A k \in 1..Len(parsed.timeline) :
              /\ parsed.timeline[k].kp = Carried(kpMapOf(kpIn), k, InitLastKp)
              /\ parsed.timeline[k].xray = Carried(xrayMapOf(xrayIn), k, InitLastXray)

\* a reading matched by the first sample is still carried two samples later,
\* with no match in between, and differs from the default
C8_Witness ==
    /\ Emitted
    /\ Len(parsed.timeline) = 3
    /\ Matches(kpMapOf(kpIn), 3) = {1}
    /\ parsed.timeline[3].kp = 3 * Unit
    /\ parsed.timeline[3].kp # InitLastKp

NumericFields == {"speed", "density", "temp", "bt", "bz", "bx", "by", "kp", "xray"}

\* C9: every numeric field of every emitted point is a finite number.
C9_AllFinite ==
    Emitted =>
        \A k \in 1..Len(parsed.timeline) : \A f \in NumericFields :
            IsFinite(parsed.timeline[k][f])

\* a cell that is non-numeric text, empty, null or missing
Malformed(c) == c.t \in {"text", "empty", "null", "missing"}

\* the row of payload p whose reading the map holds for minute key
Winner(p, first, key) ==
    p.rows[Max({i \in Visited(p, first) : substring16(p.rows[i].time) = key})]

\* C10: a malformed cell of a high-frequency field yields 0 in the emitted
\* point, and a malformed kp or xray cell leaves the carried value in force.
C10_MalformedCells ==
    Emitted =>
        \A k \in 1..Len(parsed.timeline) :
            LET r   == plasmaIn.rows[PrimaryRows[k]]
                pt  == parsed.timeline[k]
                key == PrimaryKey(k)
                prevKp == IF k = 1 THEN InitLastKp ELSE parsed.timeline[k - 1].kp
                prevXray == IF k = 1 THEN InitLastXray ELSE parsed.timeline[k - 1].xray
            IN  /\ Malformed(Cell(r, 2)) => pt.speed = 0
                /\ Malformed(Cell(r, 1)) => pt.density = 0
                /\ Malformed(Cell(r, 3)) => pt.temp = 0
                /\ key \in DOMAIN magMapOf(magIn) =>
                      LET m == Winner(magIn, 2, key)
                      IN  /\ Malformed(Cell(m, 1)) => pt.bx = 0
                          /\ Malformed(Cell(m, 2)) => pt.by = 0
                          /\ Malformed(Cell(m, 3)) => pt.bz = 0
                          /\ Malformed(Cell(m, 4)) => pt.bt = 0
                /\ (key \in DOMAIN kpMapOf(kpIn) /\ Malformed(Cell(Winner(kpIn, 2, key), 1)))
                      => pt.kp = prevKp
                /\ (key \in DOMAIN xrayMapOf(xrayIn) /\ Malformed(Cell(Winner(xrayIn, 1, key), 1)))
                      => pt.xray = prevXray

----------------------------------------------------------------------------
(* TimelinePlayer.fetchLive *)

\* if (tl.length < 100) throw new Error("Insufficient data")
MinPoints == 100

\* fetchLive() calls that may be suspended at once
MaxPending == 2

\* what the four requests can come back with
ResponseKinds == {"reject", "plasma503", "mag503", "badJson", "nullBody", "short", "ok", "ok1", "fill"}

\* a live window of n one-minute samples: plasma and mag every minute, the
\* index every 30 minutes, the flux every 10
LivePlasma(n) ==
    Payload(<<Header>> \o
        [i \in 1..n |->
            Row(Time(Now + 60 * i + 30),
                <<Num((3 + (i % 5)) * Unit), Num((400 + 10 * (i % 7)) * Unit),
                  Num(IF i % 2 = 1 THEN 38522624 ELSE 10752528)>>)])

\* a live window whose plasma rows carry the fill value -9999.9 for density
\* and speed
FillPlasma(n) ==
    Payload(<<Header>> \o
        [i \in 1..n |->
            Row(Time(Now + 60 * i + 30),
                <<Num(0 - 999990), Num(0 - 999990), Num(10752528)>>)])

LiveMag(n) ==
    Payload(<<Header>> \o
        [i \in 1..n |->
            Row(Time(Now + 60 * i),
                <<Num(((i % 5) - 2) * Unit), Num(((i % 3) - 1) * Unit),
                  Num(((i % 9) - 6) * Unit), Num((4 + (i % 4)) * Unit)>>)])

LiveKp(n) ==
    Payload(<<Header>> \o
        [j \in 1..((n + 29) \div 30) |-> Row(Time(Now + 60 * (30 * j - 29)), <<Num((2 + j) * Unit)>>)])

LiveXray(n) ==
    Payload([j \in 1..((n + 9) \div 10) |->
                Row(Time(Now + 60 * (10 * j - 9) + 7), <<Num(IF j % 4 = 0 THEN 9000 ELSE 800 + 100 * j)>>)])

Response(kind) ==
    LET n == CASE kind = "short" -> MinPoints - 1
               [] kind = "ok1" -> MinPoints + 1
               [] OTHER -> MinPoints
    IN  [rejects |-> kind = "reject",
         plasmaOk |-> kind # "plasma503",
         magOk |-> kind # "mag503",
         jsonFails |-> kind = "badJson",
         plasma |-> IF kind = "fill" THEN FillPlasma(n) ELSE LivePlasma(n),
         mag |-> LiveMag(n),
         kp |-> IF kind = "nullBody" THEN NullPayload ELSE LiveKp(n),
         xray |-> LiveXray(n)]

Threw(message) == [ok |-> FALSE, message |-> message, timeline |-> <<>>]

\* a try block that accepts a timeline of any length
tryBlock_anyLength(resp) ==
    IF resp.rejects THEN Threw("Failed to fetch")
    ELSE IF ~resp.plasmaOk \/ ~resp.magOk THEN Threw("NOAA API unavailable")
    ELSE IF resp.jsonFails THEN Threw("Unexpected token < in JSON at position 0")
    ELSE LET built == parseNOAAData(resp.plasma, resp.mag, resp.kp, resp.xray)
         IN  IF built.threw THEN Threw("Cannot read properties of null (reading 'length')")
             ELSE [ok |-> TRUE, message |-> NoError, timeline |-> built.timeline]

\* the try block: the timeline it installs, or the message of what it throws
tryBlock(resp) ==
    IF resp.rejects THEN Threw("Failed to fetch")
    ELSE IF ~resp.plasmaOk \/ ~resp.magOk THEN Threw("NOAA API unavailable")
    ELSE IF resp.jsonFails THEN Threw("Unexpected token < in JSON at position 0")
    ELSE LET built == parseNOAAData(resp.plasma, resp.mag, resp.kp, resp.xray)
         IN  IF built.threw THEN Threw("Cannot read properties of null (reading 'length')")
             ELSE IF Len(built.timeline) < MinPoints THEN Threw("Insufficient data")
             ELSE [ok |-> TRUE, message |-> NoError, timeline |-> built.timeline]

\* the try block on each kind of response
tried == [kind \in ResponseKinds |-> tryBlock(Response(kind))]

\* the arrays this.timeline can refer to
arrays ==
    [r \in {NoPoints} \cup {Parsed(kind) : kind \in ResponseKinds}
                      \cup {Generated(seed) : seed \in 1..NumSeeds} |->
        CASE r.from = "constructor" -> <<>>
          [] r.from = "parseNOAAData" -> tried[r.id].timeline
          [] OTHER -> simulated[r.seed]]

\* const tl = this.timeline
tl == arrays[timeline]

\* fetchLive() up to its first await
fetchLive_call ==
    /\ pending < MaxPending
    /\ loading' = TRUE
    /\ error' = NoError
    /\ pending' = pending + 1
    \* the caller holds a promise that has not settled
    /\ ret' = Returned("fetchLive_call", NoFraction, "", FALSE, NullSample)
    /\ UNCHANGED <<timeline, index, isLive, currentTime, progress, paused,
                   historyVars, outsideVars>>

\* a try block that installs the timeline and leaves the cursor where it is
tryEnd_keepIndex(kind) ==
    /\ timeline' = Parsed(kind)
    /\ isLive' = TRUE
    /\ loading' = FALSE
    /\ ret' = Returned("fetchLive", NoFraction, kind, TRUE, NullSample)
    /\ UNCHANGED <<index, error>>

\* the end of the try block: this.timeline = tl; ...; return true
tryEnd(kind) ==
    /\ timeline' = Parsed(kind)
    /\ isLive' = TRUE
    /\ index' = 0
    /\ loading' = FALSE
    /\ ret' = Returned("fetchLive", NoFraction, kind, TRUE, NullSample)
    /\ UNCHANGED error

\* a catch block that leaves the cursor where it is
catchBlock_keepIndex(kind, seed) ==
    /\ timeline' = Generated(seed)
    /\ isLive' = FALSE
    /\ loading' = FALSE
    /\ error' = tried[kind].message
    /\ ret' = Returned("fetchLive", NoFraction, kind, FALSE, NullSample)
    /\ UNCHANGED index

\* a catch block that installs the generated timeline and leaves loading set
catchBlock_keepLoading(kind, seed) ==
    /\ timeline' = Generated(seed)
    /\ isLive' = FALSE
    /\ index' = 0
    /\ error' = tried[kind].message
    /\ ret' = Returned("fetchLive", NoFraction, kind, FALSE, NullSample)
    /\ UNCHANGED loading

\* catch (e) { this.error = e.message; ...; return false }
catchBlock(kind, seed) ==
    /\ timeline' = Generated(seed)
    /\ isLive' = FALSE
    /\ index' = 0
    /\ loading' = FALSE
    /\ error' = tried[kind].message
    /\ ret' = Returned("fetchLive", NoFraction, kind, FALSE, NullSample)

\* the rest of fetchLive(), once the responses are in: the try block, or the
\* catch block with the generator drawing under `seed`
fetchLive_settle(kind, seed) ==
    /\ pending > 0
    /\ pending' = pending - 1
    /\ IF tried[kind].ok THEN tryEnd(kind) ELSE catchBlock(kind, seed)
    /\ Placed(index', FALSE)
    /\ UNCHANGED <<currentTime, progress, paused, outsideVars>>

----------------------------------------------------------------------------
(* TimelinePlayer.getCurrent, advance, seekTo, togglePause *)

Min2(a, b) == IF a < b THEN a ELSE b
Max2(a, b) == IF a > b THEN a ELSE b

\* const lerp = (v1, v2) => v1 + (v2 - v1) * t, t = f[1] / f[2]
lerp(v1, v2, f) == FAdd(v1, FMulFrac(FSub(v2, v1), f[1], f[2]))

\* what getCurrent(f) returns on the non-empty array t with the cursor at at_
sampleAt(t, at_, f) ==
    LET n == Len(t)
        i == Min2(at_, n - 1)
        a == t[i + 1]
        b == t[Min2(i + 1, n - 1) + 1]
    IN  [isNull |-> FALSE,
         latest |-> [speed |-> lerp(a.speed, b.speed, f),
                     density |-> lerp(a.density, b.density, f),
                     temp |-> lerp(a.temp, b.temp, f),
                     bt |-> lerp(a.bt, b.bt, f),
                     bz |-> lerp(a.bz, b.bz, f),
                     kp |-> lerp(a.kp, b.kp, f)],
         xray_values |-> <<a.xray, lerp(a.xray, b.xray, f)>>,
         currentTime |-> a.time,
         progress |-> <<at_, Max2(1, n - 1)>>,
         isLive |-> isLive,
         totalPoints |-> n,
         index |-> at_]

\* what getCurrent(f) returns on the non-empty array t
sample(t, f) == sampleAt(t, index, f)

\* a getCurrent(f) that refreshes progress before it looks at the array
getCurrentOf_refresh(t, f) ==
    IF Len(t) = 0
    THEN /\ ret' = Returned("getCurrent", f, "", FALSE, NullSample)
         /\ progress' = <<index, Max2(1, Len(t) - 1)>>
         /\ UNCHANGED <<timeline, index, isLive, loading, error, currentTime, paused,
                        pending, historyVars, outsideVars>>
    ELSE /\ currentTime' = sample(t, f).currentTime
         /\ progress' = sample(t, f).progress
         /\ ret' = Returned("getCurrent", f, "", TRUE, sample(t, f))
         /\ UNCHANGED <<timeline, index, isLive, loading, error, paused, pending,
                        historyVars, outsideVars>>

\* getCurrent(f) with this.timeline referring to the array t
getCurrentOf(t, f) ==
    IF Len(t) = 0
    THEN /\ ret' = Returned("getCurrent", f, "", FALSE, NullSample)
         /\ UNCHANGED <<playerVars, pending, historyVars, outsideVars>>
    ELSE /\ currentTime' = sample(t, f).currentTime
         /\ progress' = sample(t, f).progress
         /\ ret' = Returned("getCurrent", f, "", TRUE, sample(t, f))
         /\ UNCHANGED <<timeline, index, isLive, loading, error, paused, pending,
                        historyVars, outsideVars>>

getCurrent(f) == getCurrentOf(tl, f)

\* an advance() that wraps only past the last point
advanceIn_atEnd(n) ==
    IF paused
    THEN /\ ret' = Returned("advance", NoFraction, "", FALSE, NullSample)
         /\ still' = still + 1
         /\ UNCHANGED <<playerVars, pending, base, run, loops, fullPause, outsideVars>>
    ELSE LET looped == index + 1 >= n
         IN  /\ index' = IF looped THEN 0 ELSE index + 1
             /\ ret' = Returned("advance", NoFraction, "", looped, NullSample)
             /\ base' = IF loops > 0 THEN 0 ELSE base
             /\ run' = IF loops > 0 THEN 1 ELSE run + 1
             /\ loops' = IF looped THEN 1 ELSE 0
             /\ fullPause' = (fullPause /\ loops = 0)
             /\ UNCHANGED <<timeline, isLive, loading, error, currentTime, progress, paused,
                            pending, still, outsideVars>>

\* an advance() that does not look at this.paused
advanceIn_ignorePause(n) ==
    LET looped == index + 1 >= n - 1
    IN  /\ index' = IF looped THEN 0 ELSE index + 1
        /\ ret' = Returned("advance", NoFraction, "", looped, NullSample)
        /\ still' = IF paused THEN still + 1 ELSE still
        /\ base' = IF paused \/ loops = 0 THEN base ELSE 0
        /\ run' = IF paused THEN run ELSE IF loops > 0 THEN 1 ELSE run + 1
        /\ loops' = IF paused THEN loops ELSE IF looped THEN 1 ELSE 0
        /\ fullPause' = (fullPause /\ loops = 0)
        /\ UNCHANGED <<timeline, isLive, loading, error, currentTime, progress, paused,
                       pending, outsideVars>>

\* advance() with this.timeline.length = n
advanceIn(n) ==
    IF paused
    THEN /\ ret' = Returned("advance", NoFraction, "", FALSE, NullSample)
         /\ still' = still + 1
         /\ UNCHANGED <<playerVars, pending, base, run, loops, fullPause, outsideVars>>
    ELSE LET looped == index + 1 >= n - 1
         IN  /\ index' = IF looped THEN 0 ELSE index + 1
             /\ ret' = Returned("advance", NoFraction, "", looped, NullSample)
             \* a call after a wrap begins a new count from index 0
             /\ base' = IF loops > 0 THEN 0 ELSE base
             /\ run' = IF loops > 0 THEN 1 ELSE run + 1
             /\ loops' = IF looped THEN 1 ELSE 0
             /\ fullPause' = (fullPause /\ loops = 0)
             /\ UNCHANGED <<timeline, isLive, loading, error, currentTime, progress, paused,
                            pending, still, outsideVars>>

advance == advanceIn(Len(tl))

\* a clamp that lets every fraction through
clamp01_none(f) == f

\* Math.max(0, Math.min(1, fraction)) of the fraction f[1] / f[2], f[2] > 0
clamp01(f) == IF f[1] < 0 THEN <<0, 1>> ELSE IF f[1] > f[2] THEN <<1, 1>> ELSE f

\* Math.floor(c * (n - 1)); the product is exact for the fractions drawn
seekIndex(f, n) == (clamp01(f)[1] * (n - 1)) \div clamp01(f)[2]

seekTo(f) ==
    /\ index' = seekIndex(f, Len(tl))
    /\ ret' = Returned("seekTo", f, "", FALSE, NullSample)
    /\ Placed(index', FALSE)
    /\ UNCHANGED <<timeline, isLive, loading, error, currentTime, progress, paused,
                   pending, outsideVars>>

\* paused advance() calls counted in one pause
MaxStill == 50

togglePause ==
    /\ paused' = ~paused
    /\ ret' = Returned("togglePause", NoFraction, "", paused', NullSample)
    /\ Placed(index, paused /\ still = MaxStill)
    /\ UNCHANGED <<timeline, index, isLive, loading, error, currentTime, progress,
                   pending, outsideVars>>

----------------------------------------------------------------------------
(* Spec: the player under any caller, every call with arguments from small  *)
(* sets, and at most MaxShort advance() calls from where the cursor was     *)
(* placed.                                                                  *)

MaxShort == 2

Fractions == {<<0, 1>>, <<1, 4>>, <<1, 2>>, <<1, 1>>}
SeekFractions == {<<0 - 1, 2>>, <<0, 1>>, <<1, 2>>, <<1, 1>>, <<3, 2>>}

InitInputs ==
    /\ plasmaIn = NullPayload /\ magIn = NullPayload /\ kpIn = NullPayload /\ xrayIn = NullPayload
    /\ parsed = NotParsed

Init == constructor /\ InitInputs /\ SonEngine /\ AuroraApp /\ failing = {}

\* advance() where the cursor is within MaxShort of the start, or at the wrap,
\* and at most MaxShort times in a pause
AdvanceShortIn(n) ==
    /\ IF paused THEN still < MaxShort
       ELSE index < MaxShort \/ index + 1 >= n - 1
    /\ advanceIn(n)

AdvanceShort == AdvanceShortIn(Len(tl))

Next ==
    \/ fetchLive_call
    \/ \E kind \in ResponseKinds, seed \in 1..NumSeeds : fetchLive_settle(kind, seed)
    \/ \E f \in Fractions : getCurrent(f)
    \/ AdvanceShort
    \/ \E f \in SeekFractions : seekTo(f)
    \/ togglePause

Spec == Init /\ [][Next]_vars

----------------------------------------------------------------------------
(* Claims on fetchLive *)

\* the responses with which live acquisition fails, and the reason of each
FailingKinds == {"reject", "plasma503", "mag503", "badJson", "nullBody", "short"}

Reason(kind) ==
    CASE kind = "reject" -> "Failed to fetch"
      [] kind \in {"plasma503", "mag503"} -> "NOAA API unavailable"
      [] kind = "badJson" -> "Unexpected token < in JSON at position 0"
      [] kind = "nullBody" -> "Cannot read properties of null (reading 'length')"
      [] kind = "short" -> "Insufficient data"
      [] OTHER -> NoError

\* C1: whichever way live acquisition fails, fetchLive() returns (false) to
\* its caller with a generated timeline of 5000 points installed, isLive
\* false, error the reason of the failure, index 0 and loading false
C1_FailureFallsBack ==
    (ret.op = "fetchLive" /\ ret.kind \in FailingKinds) =>
        /\ ~ret.ok
        /\ timeline \in {Generated(seed) : seed \in 1..NumSeeds}
        /\ Len(tl) = points
        /\ ~isLive
        /\ error = Reason(ret.kind)
        /\ error # NoError
        /\ index = 0
        /\ ~loading

\* a failure of each reason has been answered, the last one of a short
\* timeline
C1_Witness ==
    /\ ret.op = "fetchLive" /\ ret.kind = "short" /\ ~ret.ok
    /\ error = "Insufficient data"
    /\ timeline = Generated(1)
    /\ index = 0

\* C2: an installed timeline has at least 100 points: a live timeline of 99
\* points is not installed, the generated one of 5000 is, and the timeline is
\* non-empty whenever loading is false
C2_MinimumLength ==
    /\ timeline # NoPoints => Len(tl) >= MinPoints
    /\ (ret.op = "fetchLive" /\ ret.kind = "short") =>
            timeline.from = "generateSimulatedTimeline" /\ Len(tl) = points
    /\ \A seed \in 1..NumSeeds : Len(simulated[seed]) = points /\ points >= MinPoints
    /\ ~loading => Len(tl) > 0

\* a response of 99 rows has been answered while no fetch is loading
C2_Witness ==
    /\ ret.op = "fetchLive" /\ ret.kind = "short"
    /\ Len(parseNOAAData(Response("short").plasma, Response("short").mag,
                         Response("short").kp, Response("short").xray).timeline) = MinPoints - 1
    /\ ~loading /\ pending = 0
    /\ Len(tl) = points

----------------------------------------------------------------------------
(* Claims on seekTo and getCurrent *)

\* the fraction f clamped to [0, 1]
Clamped(f) == IF f[1] < 0 THEN <<0, 1>> ELSE IF f[1] > f[2] THEN <<1, 1>> ELSE f

\* k = floor(c * m) for the fraction c: k <= c * m < k + 1
IsFloorOf(k, c, m) == k * c[2] <= c[1] * m /\ c[1] * m < (k + 1) * c[2]

C5_Lands ==
    (ret.op = "seekTo" /\ Len(tl) >= 2) =>
        /\ IsFloorOf(index, Clamped(ret.f), Len(tl) - 1)
        /\ 0 <= index /\ index <= Len(tl) - 1
        /\ (ret.f = <<0, 1>> => index = 0)
        /\ (ret.f = <<1, 1>> => index = Len(tl) - 1)

C5_Frame ==
    (\E f \in SeekFractions : seekTo(f)) =>
        UNCHANGED <<timeline, isLive, loading, error, currentTime, progress, paused, pending>>

\* C5: on a timeline of n >= 2 points seekTo(f) leaves index at
\* floor(clamp(f, 0, 1) * (n - 1)), within 0..n-1, at 0 for f = 0 and at n - 1
\* for f = 1, for f below 0 and above 1 as well, and it changes no field of
\* the player but index
C5_SeekTo == []C5_Lands /\ [][C5_Frame]_vars

\* a seek beyond the end has landed on the last index of a 5000-point
\* timeline with the player paused
C5_Witness ==
    /\ ret.op = "seekTo" /\ ret.f = <<3, 2>>
    /\ Len(tl) = points /\ index = points - 1
    /\ paused

EmptyTimeline == Len(tl) = 0

C7_ReturnsNull == (ret.op = "getCurrent" /\ EmptyTimeline) => ~ret.ok /\ ret.sample = NullSample

C7_Frame ==
    (EmptyTimeline /\ \E f \in Fractions : getCurrent(f)) =>
        UNCHANGED <<timeline, index, isLive, loading, error, currentTime, progress, paused,
                    pending>>

\* C7: on an empty timeline getCurrent(f) returns null for every fraction
\* and cursor value, and index, currentTime, progress, paused and the other
\* fields of the player stay as they were
C7_EmptyTimeline == []C7_ReturnsNull /\ [][C7_Frame]_vars

\* getCurrent has returned null on the empty timeline with the cursor moved
\* off 0 and the player paused
C7_Witness ==
    /\ ret.op = "getCurrent" /\ ret.f = <<1, 2>> /\ ~ret.ok
    /\ EmptyTimeline
    /\ index = 0 - 1
    /\ paused

Scalars == {"speed", "density", "temp", "bt", "bz", "kp"}

\* the sample returned last has, in every scalar, the value want(a, b) of the
\* point a at the cursor and the point b after it
SampleIs(want(_, _)) ==
    LET n == Len(tl)
        a == tl[index + 1]
        b == tl[Min2(index + 1, n - 1) + 1]
    IN  /\ \A s \in Scalars : ret.sample.latest[s] = want(a[s], b[s])
        /\ ret.sample.xray_values[2] = want(a.xray, b.xray)

First(x, y) == x
Second(x, y) == y

\* the midpoint of two Numbers, where it is a Number
IsMidpoint ==
    LET n == Len(tl)
        a == tl[index + 1]
        b == tl[Min2(index + 1, n - 1) + 1]
    IN  /\ \A s \in Scalars : 2 * ret.sample.latest[s] = a[s] + b[s]
        /\ 2 * ret.sample.xray_values[2] = a.xray + b.xray

\* C6: getCurrent(0) returns the values of timeline[i], getCurrent(1) those
\* of timeline[min(i + 1, n - 1)], getCurrent(0.5) the midpoint of the two in
\* every scalar, and at i = n - 1 every fraction returns timeline[n - 1]
C6_Interpolation ==
    (ret.op = "getCurrent" /\ ret.ok) =>
        /\ ret.f = <<0, 1>> => SampleIs(First)
        /\ ret.f = <<1, 1>> => SampleIs(Second)
        /\ ret.f = <<1, 2>> => IsMidpoint
        /\ index = Len(tl) - 1 => SampleIs(First)

\* the parts of C6 at fraction 0 and at the last index
C6_AtCursor ==
    (ret.op = "getCurrent" /\ ret.ok) =>
        /\ ret.f = <<0, 1>> => SampleIs(First)
        /\ index = Len(tl) - 1 => SampleIs(First)

----------------------------------------------------------------------------
(* SpecPlay: the player driven through whole windows: a fetch at the start  *)
(* and after every wrap signal, advance() without a limit on its number    *)
(* (at most MaxStill calls in one pause), a seek to the middle, and pauses  *)
(* that begin where the cursor was placed.                                  *)

PlayKinds == {"reject", "ok", "ok1"}

FetchPlay ==
    /\ ret.op = "none" \/ (ret.op = "advance" /\ ret.ok)
    /\ fetchLive_call

AdvancePlayIn(n) ==
    /\ paused => still < MaxStill
    /\ advanceIn(n)

AdvancePlay == AdvancePlayIn(Len(tl))

SeekPlay == timeline # NoPoints /\ seekTo(<<1, 2>>)

PausePlay ==
    /\ timeline # NoPoints
    /\ paused \/ run = 0
    /\ togglePause

NextPlay ==
    \/ FetchPlay
    \/ \E kind \in PlayKinds, seed \in 1..NumSeeds : fetchLive_settle(kind, seed)
    \/ AdvancePlay
    \/ SeekPlay
    \/ PausePlay

SpecPlay == Init /\ [][NextPlay]_vars

----------------------------------------------------------------------------
(* Claims on advance and togglePause.  base is the index at which the       *)
(* cursor was last placed (by a fetch, a seek or a toggle of the pause),    *)
(* run the number of unpaused advance() calls since, loops the wrap signals *)
(* among them, still the paused advance() calls of the current pause.       *)

\* C3: from index 0 on a timeline of n >= 2 points, each of the first n - 2
\* advance() calls of an unpaused player returns false and moves the index
\* up by one, and call n - 1 returns true, the one wrap signal of the run,
\* and leaves the index at 0
C3_WrapOnce ==
    (Len(tl) >= 2 /\ base = 0 /\ ~paused) =>
        /\ run <= Len(tl) - 1
        /\ run < Len(tl) - 1 =>
                /\ index = run
                /\ loops = 0
                /\ (run > 0 /\ ret.op = "advance") => ~ret.ok
        /\ run = Len(tl) - 1 =>
                /\ index = 0
                /\ loops = 1
                /\ ret.op = "advance" => ret.ok

\* call n - 1 of a run over the 5000 generated points has returned
C3_Witness ==
    /\ Len(tl) = points /\ ~paused
    /\ base = 0 /\ run = points - 1
    /\ ret.op = "advance" /\ ret.ok
    /\ index = 0 /\ loops = 1

\* C4: advance() calls of a paused player return false and leave the index
\* where the pause found it, however many they are; after the pause ends, k
\* calls from index i with i + k < length - 1 leave the index at i + k
C4_PauseFreezes ==
    /\ (paused /\ still > 0) =>
            /\ index = base /\ run = 0
            /\ ret.op = "advance" => ~ret.ok
    /\ (~paused /\ base + run < Len(tl) - 1) => index = base + run

\* 5000 generated points, a pause of MaxStill advance() calls away from
\* index 0, then MaxStill calls after it
C4_Witness ==
    /\ Len(tl) = points /\ ~paused
    /\ fullPause
    /\ base > 0 /\ run = MaxStill
    /\ index = base + MaxStill
    /\ ret.op = "advance" /\ ~ret.ok

----------------------------------------------------------------------------
(* More claims about parseNOAAData (SpecParse) *)

\* the rows of the primary series after the header row
DataRows == 2..Len(plasmaIn.rows)

\* the data rows that are rows and hold a time tag, in input order
StampedRows == Ascending({i \in DataRows : ~plasmaIn.rows[i].isNull /\ plasmaIn.rows[i].time.t = "time"})

\* C11 as stated: the output has one point per plasma row after the header
\* row, and point k carries the timestamp of data row k
C11_OnePerRow ==
    Emitted =>
        /\ Len(parsed.timeline) = Len(plasmaIn.rows) - 1
        /\ \A k \in 1..Len(parsed.timeline) :
              /\ plasmaIn.rows[k + 1].time.t = "time"
              /\ parsed.timeline[k].time = plasmaIn.rows[k + 1].time.v

\* C11: the output has one point per plasma data row that is a row and holds
\* a time tag, in input order: point k carries the timestamp of the k-th
\* such row; a null row and a row without a time tag emit nothing
C11_OnePerStampedRow ==
    Emitted =>
        /\ Len(parsed.timeline) = Len(StampedRows)
        /\ \A k \in 1..Len(parsed.timeline) :
              parsed.timeline[k].time = plasmaIn.rows[StampedRows[k]].time.v

\* three data rows, the second one null, have been normalized to two points
C11_Witness ==
    /\ Emitted
    /\ Len(plasmaIn.rows) = 4 /\ plasmaIn.rows[3].isNull
    /\ Len(parsed.timeline) = 2
    /\ parsed.timeline[2].time = plasmaIn.rows[4].time.v

----------------------------------------------------------------------------
(* SonEngine.start and SonEngine.stop.  An audio node is the pair of the    *)
(* allocation that made it (1, 2, ...) and its name.                        *)

\* start() calls that get past `if (this.on) return`
MaxStarts == 2

\* the last value of the audio clock, in tenths of a second
MaxClock == 32

playerSide == <<playerVars, callVars, historyVars, parseVars>>

\* what no method of the engine writes
offSonVars == <<playerSide, failing, appVars, sceneVars>>

\* start() up to await Tone.start(), or its return when the engine is on
start_call ==
    /\ IF on
       THEN /\ son' = [op |-> "start", returned |-> TRUE]
            /\ UNCHANGED starting
       ELSE /\ gens + starting < MaxStarts
            /\ starting' = starting + 1
            /\ son' = [op |-> "start", returned |-> FALSE]
    /\ UNCHANGED <<on, voices, lastPluck, lastBell, live, gens, now, bellAt, pluckAt, offSonVars>>

\* the nodes allocation g makes
Allocated(g) == {<<g, n>> : n \in Range(NodeNames)}

\* the rest of start() once Tone.start() has resolved: lines 254 to 315
start_resume ==
    /\ starting > 0
    /\ starting' = starting - 1
    /\ gens' = gens + 1
    /\ live' = live \cup Allocated(gens + 1)
    /\ voices' = [n \in Range(NodeNames) |-> gens + 1]
    /\ on' = TRUE
    /\ lastPluck' = 0
    /\ lastBell' = 0
    /\ son' = [op |-> "start_resume", returned |-> TRUE]
    /\ UNCHANGED <<now, bellAt, pluckAt, offSonVars>>

\* Tone.start() rejects: start() throws at its await, nothing is allocated
start_reject ==
    /\ starting > 0
    /\ starting' = starting - 1
    /\ son' = [op |-> "start_resume", returned |-> FALSE]
    /\ UNCHANGED <<on, voices, lastPluck, lastBell, live, gens, now, bellAt, pluckAt, offSonVars>>

\* the fields stop() disposes, in order
StopList == <<"wind", "bzPad", "pluck", "noise", "bell", "sub", "shimmer", "noiseFilter",
              "chorus", "delay", "reverb", "breathLFO", "master">>

\* x?.dispose() on the fields of list: an unassigned field is passed over
Disposed(list) == {<<voices[list[i]], list[i]>> : i \in {j \in DOMAIN list : voices[list[j]] # 0}}

\* stop() as the engine sees it
stop_do ==
    /\ IF on
       THEN /\ live' = live \ Disposed(StopList)
            /\ on' = FALSE
       ELSE UNCHANGED <<live, on>>
    /\ son' = [op |-> "stop", returned |-> TRUE]
    /\ UNCHANGED <<voices, lastPluck, lastBell, starting, gens, now, bellAt, pluckAt>>

stop == stop_do /\ UNCHANGED offSonVars

\* the audio clock moves on by dt tenths of a second
clock(dt) ==
    /\ now + dt <= MaxClock
    /\ now' = now + dt
    /\ UNCHANGED <<on, voices, lastPluck, lastBell, starting, live, gens, son, bellAt, pluckAt,
                   offSonVars>>

----------------------------------------------------------------------------
(* SonEngine.update.  Normalized values are in ten-thousandths. *)

One == 100 * 100

\* Math.min(1, (v || d) / full)
norm(v, d, full) == Min2(One, RoundDiv(OrElse(v, d) * (One \div Unit), full \div Unit))

\* Math.max(-1, Math.min(1, (v || 0) / 15))
normBz(v) == Max2(0 - One, Min2(One, RoundDiv(OrElse(v, 0) * (One \div Unit), 15)))

\* what update() derives from the record d before it touches a voice
derived(d) ==
    LET l == d.latest
    IN  [sN |-> norm(l.speed, 400 * Unit, 900 * Unit),
         dN |-> norm(l.density, 5 * Unit, 20 * Unit),
         bzN |-> normBz(l.bz),
         btN |-> norm(l.bt, 5 * Unit, 25 * Unit),
         kpN |-> norm(l.kp, 2 * Unit, 9 * Unit),
         \* d.xray_values?.[d.xray_values.length - 1] || 0
         xv |-> OrElse(d.xray_values[Len(d.xray_values)], 0)]

\* the flux above which a bell sounds (4e-7) and the cooldown between bells
\* (1.5 s, in tenths of a second)
BellFlux == 4000
BellCooldown == 15

\* since > 0.3 / (0.2 + dN), since in tenths of a second: the quotient is
\* Infinity when 0.2 + dN is 0 and negative when it is below 0
exceeds(since, dN) ==
    LET den == 2000 + dN
    IN  IF den > 0 THEN since * den > 30000
        ELSE IF den = 0 THEN FALSE
        ELSE since * den < 30000

\* if (now - this._lastPluck > 0.3 / (0.2 + dN))
pluckDue(v) == exceeds(now - lastPluck, v.dN)

\* if (xv > 4e-7 && now - this._lastBell > 1.5)
bellDue(v) == v.xv > BellFlux /\ now - lastBell > BellCooldown

\* if (kpN > 0.35 && Math.random() < kpN * 0.25), the draw passing or not
subDue(v, roll) == v.kpN > 3500 /\ roll

\* if (sN + btN + kpN > 1.8 && Math.random() < 0.15)
shimmerDue(v, roll) == v.sN + v.btN + v.kpN > 18000 /\ roll

\* the chord the pad is given
chord(v) == IF v.bzN < 0 - 3000 THEN "minor7" ELSE IF v.bzN < 1000 THEN "minor" ELSE "major"

\* One statement group of update(): the mapping it belongs to, whether the
\* call reaches it, the calls it makes on audio nodes, in order, each a pair
\* <<node, method>>, whether a try statement encloses it, and the calls of its
\* catch clause (themselves inside a try)
Block(mapping, due, calls, tried_, fallback) ==
    [mapping |-> mapping, due |-> due, calls |-> calls, tried |-> tried_, fallback |-> fallback]

\* statement groups in which the pluck trigger stands outside a try
blocks_barePluck(v, subRoll, shimmerRoll) ==
    <<Block("drone", TRUE, <<<<"wind", "setNote">>>>, TRUE, <<<<"wind", "triggerAttack">>>>),
      Block("pad", TRUE, <<<<"bzPad", "releaseAll">>, <<"bzPad", "triggerAttack">>>>, TRUE, <<>>),
      Block("pluck", pluckDue(v), <<<<"pluck", "triggerAttack">>>>, FALSE, <<>>),
      Block("noise", TRUE, <<<<"noiseFilter", "baseFrequency">>, <<"noise", "rampTo">>>>, TRUE, <<>>),
      Block("bell", bellDue(v), <<<<"bell", "triggerAttackRelease">>>>, TRUE, <<>>),
      Block("sub", subDue(v, subRoll), <<<<"sub", "triggerAttackRelease">>>>, TRUE, <<>>),
      Block("shimmer", shimmerDue(v, shimmerRoll), <<<<"shimmer", "triggerAttackRelease">>>>, TRUE, <<>>),
      Block("breath", TRUE, <<<<"breathLFO", "min">>, <<"breathLFO", "max">>>>, TRUE, <<>>)>>

\* the statement groups of update(d), in order
blocks(v, subRoll, shimmerRoll) ==
    <<Block("drone", TRUE, <<<<"wind", "setNote">>>>, TRUE, <<<<"wind", "triggerAttack">>>>),
      Block("pad", TRUE, <<<<"bzPad", "releaseAll">>, <<"bzPad", "triggerAttack">>>>, TRUE, <<>>),
      Block("pluck", pluckDue(v), <<<<"pluck", "triggerAttack">>>>, TRUE, <<>>),
      Block("noise", TRUE, <<<<"noiseFilter", "baseFrequency">>, <<"noise", "rampTo">>>>, TRUE, <<>>),
      Block("bell", bellDue(v), <<<<"bell", "triggerAttackRelease">>>>, TRUE, <<>>),
      Block("sub", subDue(v, subRoll), <<<<"sub", "triggerAttackRelease">>>>, TRUE, <<>>),
      Block("shimmer", shimmerDue(v, shimmerRoll), <<<<"shimmer", "triggerAttackRelease">>>>, TRUE, <<>>),
      Block("breath", TRUE, <<<<"breathLFO", "min">>, <<"breathLFO", "max">>>>, TRUE, <<>>)>>

\* the first call of the list that raises, the calls in F raising: its
\* position, or one past the end when none does
firstRaise(calls, F) ==
    LET bad == {k \in DOMAIN calls : calls[k] \in F}
    IN  IF bad = {} THEN Len(calls) + 1 ELSE CHOOSE k \in bad : \A j \in bad : k <= j

\* the calls of the list made, and those that completed
made(calls, F) == {calls[k] : k \in {j \in DOMAIN calls : j <= firstRaise(calls, F)}}
completed(calls, F) == {calls[k] : k \in {j \in DOMAIN calls : j < firstRaise(calls, F)}}

\* whether a call of the statement group raises
raises(b, F) == firstRaise(b.calls, F) <= Len(b.calls)

\* the calls a statement group makes, and those that complete: its own, and
\* those of its catch clause when one of its own raised
madeIn(b, F) ==
    made(b.calls, F) \cup (IF raises(b, F) /\ b.tried THEN made(b.fallback, F) ELSE {})
completedIn(b, F) ==
    completed(b.calls, F) \cup (IF raises(b, F) /\ b.tried THEN completed(b.fallback, F) ELSE {})

\* the first statement group whose exception leaves update(): its position,
\* or one past the end when there is none
thrower(bs, F) ==
    LET open == {i \in DOMAIN bs : bs[i].due /\ ~bs[i].tried /\ raises(bs[i], F)}
    IN  IF open = {} THEN Len(bs) + 1 ELSE CHOOSE i \in open : \A j \in open : i <= j

\* what a run of update() does: the calls made on audio nodes, the calls that
\* completed, the statement groups run to their end, and whether an exception
\* left update()
runBlocks(bs, F) ==
    LET stop_ == thrower(bs, F)
        ran == {i \in DOMAIN bs : i <= stop_ /\ bs[i].due}
    IN  [made |-> UNION {madeIn(bs[i], F) : i \in ran},
         completed |-> UNION {completedIn(bs[i], F) : i \in ran},
         ended |-> {bs[i].mapping : i \in ran \ {stop_}},
         threw |-> stop_ <= Len(bs)]

\* update(d) as the engine sees it: the calls in `failing` raise, the two
\* random gates come out as subRoll and shimmerRoll
update_do(d, subRoll, shimmerRoll) ==
    IF ~on \/ d.isNull
    THEN /\ son' = [op |-> "update", ran |-> FALSE]
         /\ UNCHANGED <<on, voices, lastPluck, lastBell, starting, live, gens, now, bellAt, pluckAt>>
    ELSE LET v == derived(d)
             bs == blocks(v, subRoll, shimmerRoll)
             done == runBlocks(bs, failing)
         IN  /\ lastPluck' = IF "pluck" \in done.ended THEN now ELSE lastPluck
             /\ lastBell' = IF "bell" \in done.ended THEN now ELSE lastBell
             /\ bellAt' = IF <<"bell", "triggerAttackRelease">> \in done.made THEN now ELSE bellAt
             /\ pluckAt' = IF <<"pluck", "triggerAttack">> \in done.made THEN now ELSE pluckAt
             /\ son' = [op |-> "update", ran |-> TRUE, d |-> d, at |-> now,
                        subRoll |-> subRoll, shimmerRoll |-> shimmerRoll,
                        was |-> [lastPluck |-> lastPluck, lastBell |-> lastBell, bellAt |-> bellAt,
                                pluckAt |-> pluckAt],
                        chord |-> chord(v), due |-> {bs[i].mapping : i \in {j \in DOMAIN bs : bs[j].due}},
                        made |-> done.made, completed |-> done.completed,
                        ended |-> done.ended, threw |-> done.threw]
             /\ UNCHANGED <<on, voices, starting, live, gens, now>>

\* update(d) called on the engine alone
update(d, subRoll, shimmerRoll) == update_do(d, subRoll, shimmerRoll) /\ UNCHANGED offSonVars

----------------------------------------------------------------------------
(* SpecSon: the engine alone, started, fed records and stopped *)

\* the nodes update() calls, and the calls it makes on each
UpdateCalls ==
    {<<"wind", "setNote">>, <<"wind", "triggerAttack">>, <<"bzPad", "releaseAll">>,
     <<"bzPad", "triggerAttack">>, <<"pluck", "triggerAttack">>,
     <<"noiseFilter", "baseFrequency">>, <<"noise", "rampTo">>,
     <<"bell", "triggerAttackRelease">>, <<"sub", "triggerAttackRelease">>,
     <<"shimmer", "triggerAttackRelease">>, <<"breathLFO", "min">>, <<"breathLFO", "max">>}
UpdateNodes == {c[1] : c \in UpdateCalls}
CallsOf(ns) == {c \in UpdateCalls : c[1] \in ns}

\* a record as getCurrent() returns it, reduced to what update() reads
Record(speed, density, bz, bt, kp, flux) ==
    [isNull |-> FALSE,
     latest |-> [speed |-> speed, density |-> density, bz |-> bz, bt |-> bt, kp |-> kp],
     xray_values |-> <<flux>>]
NullRecord == [isNull |-> TRUE]

\* quiet wind at 1e-8, the same at exactly 4e-7, the same at 9e-7, a storm at
\* 9e-7, and a record of zeros
Quiet == Record(400 * Unit, 5 * Unit, 1 * Unit, 5 * Unit, 2 * Unit, 100)
AtThreshold == Record(400 * Unit, 5 * Unit, 1 * Unit, 5 * Unit, 2 * Unit, BellFlux)
Flare == Record(400 * Unit, 5 * Unit, 1 * Unit, 5 * Unit, 2 * Unit, 9000)
Storm == Record(850 * Unit, 30 * Unit, 0 - 10 * Unit, 30 * Unit, 8 * Unit, 9000)
Zeros == Record(0, 0, 0, 0, 0, 0)
Records == {Quiet, AtThreshold, Flare, Storm, Zeros, NullRecord}

\* the steps of the audio clock between calls, in tenths of a second
ClockSteps == {15, 16}

\* how the two random gates of a call come out
Rolls == {<<FALSE, FALSE>>, <<TRUE, TRUE>>}

InitSon == constructor /\ InitInputs /\ SonEngine /\ AuroraApp /\ failing \in {{}, CallsOf({"bell"})}

NextSon ==
    \/ start_call
    \/ start_resume
    \/ start_reject
    \/ stop
    \/ \E dt \in ClockSteps : clock(dt)
    \/ \E d \in Records, rolls \in Rolls : update(d, rolls[1], rolls[2])

SpecSon == InitSon /\ [][NextSon]_vars

----------------------------------------------------------------------------
(* The bell *)

\* the last call was an update() that went past its guard
Updated == son.op = "update" /\ son.ran

\* the bell was triggered in the last call
rang == <<"bell", "triggerAttackRelease">> \in son.made

\* the flux reading of the last call
flux == derived(son.d).xv

\* C12: in every update() call on a running engine the bell is triggered
\* exactly when the call's flux reading is above 4e-7 and there was no bell
\* trigger before or the previous one lies more than 1.5 s back.
C12_BellExactly ==
    Updated =>
        (rang <=> (flux > BellFlux
                   /\ (son.was.bellAt = NoBell \/ son.at - son.was.bellAt > BellCooldown)))

\* what the code does hold to: the bell is triggered exactly when the flux is
\* above 4e-7 and the audio clock is more than 1.5 s past _lastBell, which is
\* 0 after start() and the clock of the last trigger afterwards
C12_BellByLastBell ==
    Updated =>
        /\ rang <=> (flux > BellFlux /\ son.at - son.was.lastBell > BellCooldown)
        /\ lastBell = (IF rang THEN son.at ELSE son.was.lastBell)

----------------------------------------------------------------------------
(* Disposal *)

\* C13: once stop() has returned and no start() is suspended, every audio node
\* start() ever allocated has been disposed.
C13_AllDisposed == (son.op = "stop" /\ starting = 0) => live = {}

\* what the code does hold to: after stop() the nodes of the last allocation
\* are disposed
C13_LastDisposed == son.op = "stop" => live \cap Allocated(gens) = {}

----------------------------------------------------------------------------
(* SpecUpdate: one engine started once, every set of failing voices *)

\* the calls that raise: every call on the nodes of a set of voices, and with
\* them or alone the drone's setNote, which raises while the drone has not
\* been attacked
FailureSets ==
    {CallsOf(ns) \cup w : ns \in SUBSET UpdateNodes, w \in {{}, {<<"wind", "setNote">>}}}

\* the step of the audio clock between calls, in tenths of a second
UpdateStep == 20

InitUpdate == constructor /\ InitInputs /\ SonEngine /\ AuroraApp /\ failing \in FailureSets

NextUpdate ==
    \/ gens = 0 /\ starting = 0 /\ start_call
    \/ start_resume
    \/ clock(UpdateStep)
    \/ \E subRoll \in BOOLEAN, shimmerRoll \in BOOLEAN : update(Storm, subRoll, shimmerRoll)

SpecUpdate == InitUpdate /\ [][NextUpdate]_vars

\* the mappings of update()
Mappings == {"drone", "pad", "pluck", "noise", "bell", "sub", "shimmer", "breath"}

\* C14: in an update() call on a running engine with a record, whatever calls
\* on audio nodes raise, update() does not raise, every mapping the call is due
\* to make is run to its end, and every due mapping none of whose calls raises
\* has all its calls completed; the drone's fallback attack is made when its
\* setNote raises.
C14_Independent ==
    Updated =>
        LET bs == blocks(derived(son.d), son.subRoll, son.shimmerRoll)
        IN  /\ ~son.threw
            /\ son.ended = son.due
            /\ \A i \in DOMAIN bs :
                  (bs[i].mapping \in son.due /\ Range(bs[i].calls) \cap failing = {})
                      => Range(bs[i].calls) \subseteq son.completed
            /\ <<"wind", "setNote">> \in failing => <<"wind", "triggerAttack">> \in son.made

\* a call due to make all eight mappings, in which the drone, the noise sweep
\* and the bell raise and the other five mappings are performed
C14_Witness ==
    /\ Updated
    /\ son.due = Mappings
    /\ failing = CallsOf({"wind", "noise", "bell"})
    /\ son.completed = CallsOf({"bzPad", "pluck", "noiseFilter", "sub", "shimmer", "breathLFO"})

----------------------------------------------------------------------------
(* buildScene: the render pipeline.  Smoothed values, intensity and fade    *)
(* are in ten-thousandths; a trail value is one channel of one pixel, in    *)
(* ten-thousandths of full brightness.                                      *)

\* the GPU resources buildScene() creates: the renderer, the three render
\* targets, and the geometries and materials of the quads, the particles, the
\* ground, the aurora, the stars and the field-line tubes
Resources ==
    {"renderer", "sceneRT", "trailRT_A", "trailRT_B", "quadGeo", "trailMat", "bloomMat",
     "particleGeo", "particleMat", "groundGeo", "groundMat", "auroraGeo", "auroraMat",
     "starGeo", "starMat", "tubeGeo", "tubeMat"}

\* what renderer.dispose() releases
RendererDisposes == {"renderer"}

\* const sm = { speed: 0.5, density: 0.5, bz: 0, bt: 0.3, kp: 0.3 }
SmInit == [speed |-> 5000, density |-> 5000, bz |-> 0, bt |-> 3000, kp |-> 3000]

\* s += (target - s) * 0.015
smooth(s, target) == s + RoundDiv((target - s) * 15, 1000)

\* the smoothed state after a tick that read the record d
smoothed(s, d) ==
    LET l == d.latest
    IN  [speed |-> smooth(s.speed, norm(l.speed, 400 * Unit, 900 * Unit)),
         density |-> smooth(s.density, norm(l.density, 5 * Unit, 20 * Unit)),
         bz |-> smooth(s.bz, normBz(l.bz)),
         bt |-> smooth(s.bt, norm(l.bt, 5 * Unit, 25 * Unit)),
         kp |-> smooth(s.kp, norm(l.kp, 2 * Unit, 9 * Unit))]

\* Math.max(0.15, (sm.kp + sm.bt + Math.max(0, -sm.bz)) / 2.5)
intensityOf(s) == Max2(1500, RoundDiv((s.kp + s.bt + Max2(0, 0 - s.bz)) * 10, 25))

\* a fade that grows from 1 with the intensity
fadeOf_amplify(i) == One + RoundDiv(i * 8, 100)

\* trailMat.uniforms.uFade.value = 0.75 + intensity * 0.08
fadeOf(i) == 7500 + RoundDiv(i * 8, 100)

\* how the GPU rounds a product to a value the render target holds
Roundings == {"down", "nearest"}

\* texture2D(tPrev, vUv) * uFade
faded(prev, fade, r) == IF r = "down" THEN (prev * fade) \div One ELSE RoundDiv(prev * fade, One)

\* gl_FragColor = max(newCol, prevCol)
blend(new, prev, fade, r) == Max2(new, faded(prev, fade, r))

\* one run of animate() from the smoothed state s and the trail value prev:
\* the record read is d, the scene renders the value new at the pixel
frame(s, prev, d, new, r) ==
    IF d.isNull
    THEN [drew |-> FALSE, sm |-> s, trail |-> prev]
    ELSE LET s2 == smoothed(s, d)
             fade == fadeOf(intensityOf(s2))
         IN  [drew |-> TRUE, sm |-> s2, trail |-> blend(new, prev, fade, r),
              d |-> d, was |-> [sm |-> s, trail |-> prev], new |-> new, rounding |-> r,
              intensity |-> intensityOf(s2), fade |-> fade]

\* let trailRead = trailRT_A, trailWrite = trailRT_B
TrailInit == [read |-> "trailRT_A", write |-> "trailRT_B"]

\* renderer.setRenderTarget(null): the canvas
Screen == "screen"

\* the render calls of a tick with a snapshot, in their order, the trail
\* targets in the roles rw: each draws into `target` from the textures `reads`
passes(rw) ==
    << [pass |-> "scene", reads |-> {}, target |-> "sceneRT"],
       [pass |-> "trail", reads |-> {"sceneRT", rw.read}, target |-> rw.write],
       [pass |-> "bloom", reads |-> {rw.write}, target |-> Screen] >>

\* a tick that ends without the swap
swapped_not(rw) == rw

\* const tmp = trailRead; trailRead = trailWrite; trailWrite = tmp
swapped(rw) == [read |-> rw.write, write |-> rw.read]

\* an animate() that requests the next frame only past the null check
requested_afterCheck(d) == ~d.isNull

\* animId = requestAnimationFrame(animate), the first statement of animate()
requested(d) == TRUE

\* what a run of animate() with the outcome f, the trail targets in the
\* roles rw, does to the camera, the particles and the roles, and the calls
\* it makes on the renderer
staged(f, rw) ==
    /\ camCurrent' = IF f.drew THEN camCurrent + 1 ELSE camCurrent
    /\ sp' = IF f.drew THEN sp + 1 ELSE sp
    /\ trailRead' = IF f.drew THEN swapped(rw).read ELSE rw.read
    /\ trailWrite' = IF f.drew THEN swapped(rw).write ELSE rw.write
    /\ scn' = [op |-> "animate", passes |-> IF f.drew THEN passes(rw) ELSE <<>>,
               roles |-> rw] @@ f

\* render ticks in one run
MaxFrames == 5

\* buildScene(): the resources are created and animate() runs once
buildScene_do(new, r) ==
    LET f == frame(SmInit, 0, dataRef, new, r)
    IN  /\ scene' = "live"
        /\ gpu' = gpu \cup Resources
        /\ raf' = requested(dataRef)
        /\ sm' = f.sm
        /\ trail' = f.trail
        /\ frames' = 1
        /\ staged(f, TrailInit)

\* the render tick: animate() called back by requestAnimationFrame
animate(new, r) ==
    LET f == frame(sm, trail, dataRef, new, r)
    IN  /\ raf
        /\ frames < MaxFrames
        /\ frames' = frames + 1
        /\ raf' = requested(dataRef)
        /\ sm' = f.sm
        /\ trail' = f.trail
        /\ staged(f, [read |-> trailRead, write |-> trailWrite])
        /\ UNCHANGED <<scene, gpu, playerVars, callVars, historyVars, parseVars, sonVars,
                       envVars, appVars>>

\* the function buildScene() returns
cleanup_do ==
    /\ scene' = "cleaned"
    /\ raf' = FALSE
    /\ gpu' = gpu \ RendererDisposes
    /\ scn' = [op |-> "cleanup"]
    /\ UNCHANGED <<sm, trail, frames, trailRead, trailWrite, camCurrent, sp>>

----------------------------------------------------------------------------
(* AuroraApp: the data-tick effect, the start button, the HUD handlers and  *)
(* unmount.  The then-callback of the initial fetchLive() is a microtask:   *)
(* once queued it runs before any other step.                               *)

\* const TICKS_PER_POINT = 15
TICKS_PER_POINT == 15

\* the cursor is within MaxShort of the start, or at the wrap
nearEnds(n) == index < MaxShort \/ index + 1 >= n - 1

\* the effect of the first useEffect: the player is there, fetchLive() is
\* called with a then-callback, the interval is set
mountEffect ==
    /\ mounted = "no"
    /\ mounted' = "yes"
    /\ tickCount' = 0
    /\ loading' = TRUE
    /\ error' = NoError
    /\ pending' = pending + 1
    /\ firstFetch' = TRUE
    /\ ret' = Returned("fetchLive_call", NoFraction, "", FALSE, NullSample)
    /\ app' = [op |-> "mount"]
    /\ UNCHANGED <<timeline, index, isLive, currentTime, progress, paused, historyVars,
                   parseVars, sonVars, envVars, started, dataRef, writer, thenReady, sceneVars>>

\* a fetchLive() of the component comes back: the rest of fetchLive(), and the
\* then-callback of the initial call is queued
settleApp(kind, seed) ==
    /\ ~thenReady
    /\ pending > 0
    /\ pending' = pending - 1
    /\ IF tried[kind].ok THEN tryEnd(kind) ELSE catchBlock(kind, seed)
    /\ Placed(index', FALSE)
    /\ firstFetch' = FALSE
    /\ thenReady' = firstFetch
    /\ app' = [op |-> "settle", mounted |-> mounted]
    /\ UNCHANGED <<currentTime, progress, paused, parseVars, sonVars, envVars, mounted, started,
                   tickCount, dataRef, writer, sceneVars>>

\* player.getCurrent(f) on the array t with the cursor at at_, stored in
\* dataRef.current by `who`
publish(t, at_, f, who) ==
    /\ IF Len(t) = 0
       THEN /\ dataRef' = NullSample
            /\ UNCHANGED <<currentTime, progress>>
       ELSE /\ dataRef' = sampleAt(t, at_, f)
            /\ currentTime' = dataRef'.currentTime
            /\ progress' = dataRef'.progress
    /\ ret' = Returned("getCurrent", f, "", Len(t) > 0, dataRef')
    /\ writer' = who

\* the then-callback of the initial fetchLive(): dataRef.current = player.getCurrent(0)
then_run(t) ==
    /\ thenReady
    /\ thenReady' = FALSE
    /\ UNCHANGED <<timeline, index, isLive, loading, error, paused, pending, historyVars>>
    /\ publish(t, index, <<0, 1>>, "then")
    /\ app' = [op |-> "then", mounted |-> mounted]
    /\ UNCHANGED <<parseVars, sonVars, envVars, mounted, started, tickCount, firstFetch,
                   sceneVars>>

\* a call of fetchLive() that leaves loading as it was
reload_notLoading(looped) ==
    /\ pending' = IF looped THEN pending + 1 ELSE pending
    /\ error' = IF looped THEN NoError ELSE error
    /\ UNCHANGED loading

\* a tick that lets the wrap pass without a call of fetchLive()
reload_never(looped) == UNCHANGED <<loading, pending, error>>

\* if (looped) player.fetchLive(), in a tick that found loading false: the
\* call up to its first await
reload(looped) ==
    /\ loading' = looped
    /\ pending' = IF looped THEN pending + 1 ELSE pending
    /\ error' = IF looped THEN NoError ELSE error

\* the callback of setInterval, this.timeline referring to the array t
tick(t, subRoll, shimmerRoll) ==
    LET n == Len(t)
        count == tickCount + 1
        due == count >= TICKS_PER_POINT
        moves == due /\ ~paused
        looped == moves /\ index + 1 >= n - 1
    IN  /\ ~thenReady
        /\ mounted = "yes"
        /\ IF loading \/ n = 0
           THEN /\ app' = [op |-> "tick", published |-> FALSE, refetching |-> pending > 0 /\ ~firstFetch,
                           points |-> n]
                /\ UNCHANGED <<playerVars, callVars, historyVars, sonVars, tickCount, dataRef,
                               writer>>
           ELSE /\ due => IF paused THEN still < MaxShort ELSE nearEnds(n)
                /\ tickCount' = IF due THEN 0 ELSE count
                \* player.advance()
                /\ index' = IF ~moves THEN index ELSE IF looped THEN 0 ELSE index + 1
                /\ still' = IF due /\ paused THEN still + 1 ELSE still
                /\ base' = IF moves /\ loops > 0 THEN 0 ELSE base
                /\ run' = IF ~moves THEN run ELSE IF loops > 0 THEN 1 ELSE run + 1
                /\ loops' = IF ~moves THEN loops ELSE IF looped THEN 1 ELSE 0
                /\ fullPause' = IF moves THEN fullPause /\ loops = 0 ELSE fullPause
                /\ reload(looped)
                /\ UNCHANGED <<timeline, isLive, paused>>
                \* dataRef.current = player.getCurrent(Math.min(fraction, 1))
                /\ publish(t, index', <<count, TICKS_PER_POINT>>, "tick")
                \* if (sonRef.current?.on) sonRef.current.update(dataRef.current)
                /\ IF on THEN update_do(dataRef', subRoll, shimmerRoll) ELSE UNCHANGED sonVars
                /\ app' = [op |-> "tick", published |-> TRUE, refetching |-> FALSE, points |-> n]
        /\ UNCHANGED <<parseVars, envVars, mounted, started, firstFetch, thenReady, sceneVars>>

\* a click on the scrubber track at the fraction f of its width
scrub(f, t) ==
    /\ ~thenReady
    /\ mounted = "yes" /\ started
    /\ index' = seekIndex(f, Len(t))
    /\ Placed(index', FALSE)
    /\ UNCHANGED <<timeline, isLive, loading, error, paused, pending>>
    /\ publish(t, index', <<0, 1>>, "scrubber")
    /\ app' = [op |-> "scrub", f |-> f]
    /\ UNCHANGED <<parseVars, sonVars, envVars, mounted, started, tickCount, firstFetch,
                   thenReady, sceneVars>>

\* a click on the pause button
pauseClick ==
    /\ ~thenReady
    /\ mounted = "yes" /\ started
    /\ paused' = ~paused
    /\ ret' = Returned("togglePause", NoFraction, "", paused', NullSample)
    /\ Placed(index, paused /\ still = MaxStill)
    /\ app' = [op |-> "pause"]
    /\ UNCHANGED <<timeline, index, isLive, loading, error, currentTime, progress, pending,
                   parseVars, sonVars, envVars, mounted, started, tickCount, dataRef, writer,
                   firstFetch, thenReady, sceneVars>>

\* a click on the start button: setStarted(true), and the scene effect runs
\* buildScene()
begin(new, r) ==
    /\ ~thenReady
    /\ mounted = "yes" /\ ~started
    /\ started' = TRUE
    /\ buildScene_do(new, r)
    /\ app' = [op |-> "begin"]
    /\ UNCHANGED <<playerVars, callVars, historyVars, parseVars, sonVars, envVars, mounted,
                   tickCount, dataRef, writer, firstFetch, thenReady>>

\* the component unmounts: clearInterval(iv), the scene's cleanup, and stop()
\* on the engine
unmount ==
    /\ ~thenReady
    /\ mounted = "yes"
    /\ mounted' = "gone"
    /\ IF scene = "live" THEN cleanup_do ELSE UNCHANGED sceneVars
    \* if (sonRef.current) sonRef.current.stop(): there is an engine once it was called
    /\ IF son = NoCall THEN UNCHANGED sonVars ELSE stop_do
    /\ app' = [op |-> "unmount"]
    /\ UNCHANGED <<playerVars, callVars, historyVars, parseVars, envVars, started, tickCount,
                   dataRef, writer, firstFetch, thenReady>>

----------------------------------------------------------------------------
(* SpecApp: the component from mount to unmount, the scene set up but not   *)
(* animated, the audio left off (so that the random gates of update() are   *)
(* not drawn), the generator drawing under one seed.                        *)

AppKinds == {"ok", "reject"}
ScrubFractions == {<<0, 1>>, <<1, 1>>}

NextApp ==
    \/ mountEffect
    \/ \E kind \in AppKinds : settleApp(kind, 1)
    \/ then_run(tl)
    \/ tick(tl, FALSE, FALSE)
    \/ \E f \in ScrubFractions : scrub(f, tl)
    \/ pauseClick
    \/ begin(0, "nearest")
    \/ unmount

SpecApp == Init /\ [][NextApp]_vars

----------------------------------------------------------------------------
(* SpecScene: the component mounted, fed one response, the scene animated   *)
(* for MaxFrames render ticks.                                              *)

SceneKinds == {"ok", "fill", "reject"}

\* the values the scene renders at the pixel
SceneValues == {0, 6000}

NextScene ==
    \/ mountEffect
    \/ \E kind \in SceneKinds, seed \in 1..NumSeeds : settleApp(kind, seed)
    \/ then_run(tl)
    \/ \E new \in SceneValues, r \in Roundings : begin(new, r)
    \/ \E new \in SceneValues, r \in Roundings : animate(new, r)
    \/ unmount

SpecScene == Init /\ [][NextScene]_vars

----------------------------------------------------------------------------
(* The snapshot reference *)

\* C15: once the component is unmounted, and with it the data interval
\* cleared, no step writes dataRef.current: a fetchLive() that comes back
\* later leaves it as it was.
C15_NoLateWrite == [][mounted = "gone" => dataRef' = dataRef]_vars

\* C16: a data tick that finds a re-fetch outstanding over a timeline with
\* points publishes a snapshot.
C16_TickKeepsRunning ==
    (app.op = "tick" /\ app.refetching /\ app.points > 0) => app.published

\* what the code does hold to: the tick that wraps the cursor and calls
\* fetchLive() still publishes, and every tick that finds the player loading
\* publishes nothing and leaves the counter and the cursor alone
C16_TickWaits ==
    /\ []((app.op = "tick" /\ app.published) => writer = "tick")
    /\ [][(loading /\ app'.op = "tick" /\ app' # app)
            => (~app'.published /\ UNCHANGED <<tickCount, index, dataRef>>)]_vars

\* C18: dataRef.current is written by the data tick alone.
C18_SingleWriter == writer \in {"none", "tick"}

\* what the code does hold to: the writers are the data tick, the
\* then-callback of the initial fetchLive() and the scrubber's click handler;
\* the render tick and the pause button leave the reference alone
C18_Writers ==
    /\ [](writer \in {"none", "tick", "then", "scrubber"})
    /\ [][(app'.op = "pause" /\ app' # app) \/ scn' # scn => dataRef' = dataRef]_vars

----------------------------------------------------------------------------
(* The render pipeline *)

\* C17: when the cleanup function has run, every GPU resource buildScene()
\* created has been released and no animation frame is requested.
C17_AllReleased == scene = "cleaned" => (gpu = {} /\ ~raf)

\* what the code does hold to: the renderer is disposed and no render tick
\* follows
C17_RendererReleased ==
    /\ [](scene = "cleaned" => ("renderer" \notin gpu /\ ~raf))
    /\ [][scene = "cleaned" => UNCHANGED <<sm, trail, frames>>]_vars

InUnit(x) == 0 <= x /\ x <= One

\* C19: once the scene is built, the smoothed speed, density, bt and kp lie in
\* [0, 1] and the smoothed bz in [-1, 1].
C19_InRange ==
    scene # "none" =>
        /\ InUnit(sm.speed) /\ InUnit(sm.density) /\ InUnit(sm.bt) /\ InUnit(sm.kp)
        /\ 0 - One <= sm.bz /\ sm.bz <= One

\* what the code does hold to: no smoothed value exceeds 1, bz stays in
\* [-1, 1], and a tick whose record is not negative in speed, density, bt or
\* kp keeps in [0, 1] what was in [0, 1]
C19_Capped ==
    scene # "none" =>
        /\ sm.speed <= One /\ sm.density <= One /\ sm.bt <= One /\ sm.kp <= One
        /\ 0 - One <= sm.bz /\ sm.bz <= One
        /\ (scn.op = "animate" /\ scn.drew)
              => \A k \in {"speed", "density", "bt", "kp"} :
                    (InUnit(scn.was.sm[k]) /\ scn.d.latest[k] >= 0) => InUnit(sm[k])

\* smoothed values over and beyond their ranges
SmGrid == {0 - 3 * One, 0 - One, 0 - 5000, 0, 2500, 5000, 7500, One}

\* C20: the fade is above 0 and below 1 for every smoothed state with kp, bt
\* at most 1 and bz at least -1; after a render tick the trail value is at
\* most the greater of the scene value and the previous trail value; with a
\* scene value of 0 it is the previous value times the fade, rounded down or to
\* the nearest step, hence not above the previous value, and below it
\* whenever the exact decrement is more than half a step.
C20_TrailFades ==
    /\ \A k \in SmGrid, b \in SmGrid, z \in SmGrid :
          LET fade == fadeOf(intensityOf([speed |-> 0, density |-> 0, bz |-> z, bt |-> b, kp |-> k]))
          IN  0 < fade /\ fade < One
    /\ (scn.op = "animate" /\ scn.drew) =>
          /\ 0 < scn.fade /\ scn.fade < One
          /\ scn.fade = fadeOf(intensityOf(sm))
          /\ trail <= Max2(scn.new, scn.was.trail)
          /\ scn.new = 0 =>
                /\ trail \in {(scn.was.trail * scn.fade) \div One,
                              RoundDiv(scn.was.trail * scn.fade, One)}
                /\ 0 <= trail /\ trail <= scn.was.trail
                /\ 2 * scn.was.trail * (One - scn.fade) > One => trail < scn.was.trail

\* a render tick with a scene value of 0 over a lit trail, which fades
C20_Witness ==
    /\ scn.op = "animate" /\ scn.drew
    /\ scn.new = 0 /\ scn.was.trail > 0
    /\ 0 < trail /\ trail < scn.was.trail

----------------------------------------------------------------------------
(* The playback cursor under the data tick *)

\* C21: every step in which a fetchLive() of the component completes, be it
\* the initial load, a re-fetch that succeeds or one that falls back to the
\* generator, leaves player.index at 0 and the tick's sub-step counter at 0,
\* with loading cleared, whatever clicks and ticks came while it was
\* outstanding.
C21_CursorReset ==
    [][pending' < pending => (index' = 0 /\ tickCount' = 0 /\ ~loading')]_vars

\* a re-fetch has come back after a click on the scrubber moved the cursor off
\* 0 while it was outstanding: the snapshot of the click is still the latest
C21_Witness ==
    /\ app.op = "settle"
    /\ writer = "scrubber" /\ ~dataRef.isNull /\ dataRef.index > 0
    /\ index = 0 /\ tickCount = 0

----------------------------------------------------------------------------
(* SpecLive: the component as in SpecApp, its pause button left alone,      *)
(* where the requests of an outstanding fetchLive() settle in the end:      *)
(* fetch() resolves or rejects, and the continuation after the await is     *)
(* then run by the job queue.                                               *)

NextLive ==
    \/ mountEffect
    \/ \E kind \in AppKinds : settleApp(kind, 1)
    \/ then_run(tl)
    \/ tick(tl, FALSE, FALSE)
    \/ \E f \in ScrubFractions : scrub(f, tl)
    \/ begin(0, "nearest")
    \/ unmount

SpecLive ==
    /\ Init
    /\ [][NextLive]_vars
    /\ WF_vars(\E kind \in AppKinds : settleApp(kind, 1))

\* the timeline installed has the points to play
usable == timeline # NoPoints /\ Len(arrays[timeline]) >= MinPoints

----------------------------------------------------------------------------
(* The snapshots of successive data ticks *)

\* a data tick that publishes follows, in the paused player, a data tick
\* that published
PausedTicks ==
    /\ paused /\ app.op = "tick" /\ app.published
    /\ app'.op = "tick" /\ app'.published

\* C23: while the player is paused, the snapshot a data tick publishes has
\* the index and the interpolated field values of the snapshot the tick
\* before it published.
C23_PausedSnapshotFixed ==
    [][PausedTicks => (dataRef'.index = dataRef.index /\ dataRef'.latest = dataRef.latest
                        /\ dataRef'.xray_values = dataRef.xray_values)]_vars

\* what the code does hold to: between two ticks of a pause the cursor and
\* the index, the time tag and the progress of the snapshot stay, and the
\* snapshot is the one of the cursor at the weight the counter has reached
C23_PausedIndexFixed ==
    [][PausedTicks => (/\ index' = index
                       /\ dataRef'.index = dataRef.index
                       /\ dataRef'.currentTime = dataRef.currentTime
                       /\ dataRef'.progress = dataRef.progress
                       /\ ret'.f \in {<<k, TICKS_PER_POINT>> : k \in 1..TICKS_PER_POINT})]_vars

\* the last step was a data tick that published a snapshot
Published == app.op = "tick" /\ app.published

\* C24: the weight of every snapshot the data tick publishes is at least 0
\* and below 1, and the tick that moves the cursor samples the new index at
\* weight 0.
C24_WeightBelowOne ==
    /\ [](Published => (0 <= ret.f[1] /\ ret.f[1] < ret.f[2]))
    /\ [][(app'.op = "tick" /\ app'.published /\ index' # index) => ret'.f[1] = 0]_vars

\* what the code does hold to: the weight is tickCount / TICKS_PER_POINT
\* taken before the counter is reset, which is above 0 and at most 1; the
\* tick that moves the cursor samples the new index at weight 1, and every
\* other tick samples the cursor it found at a weight below 1
C24_WeightUpToOne ==
    /\ [](Published => (/\ ret.f[2] = TICKS_PER_POINT
                         /\ 0 < ret.f[1] /\ ret.f[1] <= ret.f[2]
                         /\ dataRef.index = index
                         /\ (ret.f[1] < ret.f[2] <=> tickCount = ret.f[1])
                         /\ (ret.f[1] = ret.f[2] <=> tickCount = 0)))
    /\ [][(app'.op = "tick" /\ app'.published /\ index' # index)
            => ret'.f = <<TICKS_PER_POINT, TICKS_PER_POINT>>]_vars

----------------------------------------------------------------------------
(* The wrap and the reload *)

\* the step is a data tick in which advance() returns true: the counter has
\* come round in the playing player and the cursor is at the wrap of the
\* array the tick found
Wrapping ==
    /\ app'.op = "tick" /\ app'.published
    /\ tickCount' = 0 /\ ~paused
    /\ index + 1 >= app'.points - 1

\* C25: a data tick in which advance() signals the wrap calls fetchLive() in
\* the same step, so that it ends with loading set and one more acquisition
\* outstanding, and no tick moves the cursor while an acquisition is
\* outstanding.
C25_WrapReloads ==
    /\ [][Wrapping => (loading' /\ pending' = pending + 1 /\ index' = 0)]_vars
    /\ [][(pending > 0 /\ app'.op = "tick") => index' = index]_vars

\* a tick has wrapped the cursor and started the reload
C25_Witness ==
    /\ Published /\ tickCount = 0 /\ loops = 1
    /\ index = 0 /\ loading /\ pending = 1 /\ ~firstFetch

----------------------------------------------------------------------------
(* The render tick *)

\* the step is a render tick of the built scene that finds dataRef.current
\* null
Skipping == scene = "live" /\ frames' = frames + 1 /\ dataRef.isNull

\* C26: a render tick that finds the snapshot null leaves the smoothed state,
\* the camera, the particles, the trail value and the roles of the two trail
\* targets as they were, makes no render call, and has the next frame
\* requested; so does the run of animate() inside buildScene(), from the
\* state buildScene() constructs.
C26_NullSkips ==
    /\ [][Skipping => (/\ UNCHANGED <<sm, camCurrent, sp, trail, trailRead, trailWrite>>
                       /\ scn'.op = "animate" /\ ~scn'.drew /\ scn'.passes = <<>>
                       /\ raf')]_vars
    /\ [][(scene = "none" /\ scene' = "live" /\ dataRef.isNull)
            => (/\ sm' = SmInit /\ camCurrent' = 0 /\ sp' = 0 /\ trail' = 0
                /\ trailRead' = "trailRT_A" /\ trailWrite' = "trailRT_B"
                /\ scn'.passes = <<>> /\ raf')]_vars

\* render ticks have skipped on a null snapshot, and the next is requested
C26_Witness ==
    /\ scene = "live" /\ frames >= 2 /\ dataRef.isNull
    /\ scn.op = "animate" /\ ~scn.drew /\ scn.passes = <<>>
    /\ raf /\ sm = SmInit /\ camCurrent = 0

\* the last step of the pipeline was a render tick with a snapshot
Drawn == scn.op = "animate" /\ scn.drew

TrailTargets == {"trailRT_A", "trailRT_B"}

\* C27: a render tick with a snapshot makes the scene, trail and bloom passes
\* in this order, the bloom pass alone drawing to the canvas; the trail pass
\* draws into one trail target and reads the other; after the tick the two
\* have swapped roles; and the target a tick reads as the previous trail is
\* the one the trail pass of the tick with a snapshot before it drew into.
C27_PingPong ==
    /\ [](Drawn =>
            /\ [i \in 1..3 |-> scn.passes[i].pass] = <<"scene", "trail", "bloom">>
            /\ \A i \in 1..3 : scn.passes[i].target = Screen <=> scn.passes[i].pass = "bloom"
            /\ scn.passes[2].target \in TrailTargets
            /\ scn.passes[2].target \notin scn.passes[2].reads
            /\ scn.passes[2].reads \cap TrailTargets = TrailTargets \ {scn.passes[2].target}
            /\ scn.passes[3].reads = {scn.passes[2].target}
            /\ trailRead = scn.roles.write /\ trailWrite = scn.roles.read
            /\ trailRead = scn.passes[2].target)
    /\ [][(Drawn /\ frames' = frames + 1 /\ scn'.drew)
            => (scn'.roles.read = scn.passes[2].target
                /\ scn'.passes[2].target = scn.roles.read)]_vars

\* two render ticks with a snapshot in a row: the second read trailRT_B, which
\* the first drew into, and drew into trailRT_A
C27_Witness ==
    /\ Drawn /\ frames >= 2
    /\ scn.roles = [read |-> "trailRT_B", write |-> "trailRT_A"]
    /\ trailRead = "trailRT_A" /\ trailWrite = "trailRT_B"

----------------------------------------------------------------------------
(* SpecPluck: the engine alone, no call on a node raising, fed records of   *)
(* several densities at steps of the audio clock of 0.1 s and 0.2 s, about  *)
(* the 130 ms of the data interval.                                         *)

\* records of density 30, 5, -4 and the fill value -9999.9, all of them with
\* a flux below the bell's
Dense == Record(400 * Unit, 30 * Unit, 1 * Unit, 5 * Unit, 2 * Unit, 100)
Thin == Record(400 * Unit, 5 * Unit, 1 * Unit, 5 * Unit, 2 * Unit, 100)
Void == Record(400 * Unit, 0 - 4 * Unit, 1 * Unit, 5 * Unit, 2 * Unit, 100)
Filled == Record(400 * Unit, 0 - 999990, 1 * Unit, 5 * Unit, 2 * Unit, 100)
PluckRecords == {Dense, Thin, Void, Filled}

PluckSteps == {1, 2}

\* the audio clock at which SpecPluck stops stepping it
MaxPluckClock == 10

\* the audio clock has moved since the last update() call
Apart == ~(son.op = "update" /\ son.ran /\ son.at = now)

NextPluck ==
    \/ gens = 0 /\ starting = 0 /\ start_call
    \/ start_resume
    \/ \E dt \in PluckSteps : now < MaxPluckClock /\ clock(dt)
    \/ \E d \in PluckRecords : Apart /\ update(d, FALSE, FALSE)

SpecPluck == Init /\ [][NextPluck]_vars

\* the pluck was triggered in the last call
plucked == <<"pluck", "triggerAttack">> \in son.made

\* the normalized density of the last call
dN == derived(son.d).dN

\* C28: an update() call triggers the pluck only when more than
\* 0.3 / (0.2 + dN) seconds have passed since the pluck before it, and two
\* plucks are more than 0.25 s apart whatever the density.
C28_PluckSpaced ==
    (Updated /\ plucked /\ son.was.pluckAt # NoPluck) =>
        /\ exceeds(son.at - son.was.pluckAt, dN)
        /\ (son.at - son.was.pluckAt) * 10 > 25

\* what the code does hold to: the pluck is triggered exactly when more than
\* 0.3 / (0.2 + dN) seconds have passed since _lastPluck, which is the time
\* of the last pluck of this run of the engine, or 0 when there was none; with
\* a density that is not negative this is 0.25 s or more
C28_PluckGate ==
    Updated =>
        /\ plucked <=> exceeds(son.at - son.was.lastPluck, dN)
        /\ lastPluck = (IF plucked THEN son.at ELSE son.was.lastPluck)
        /\ (plucked /\ dN >= 0) => (son.at - son.was.lastPluck) * 10 > 25
        /\ son.was.lastPluck \in {0, son.was.pluckAt}

----------------------------------------------------------------------------
(* The range of the cursor *)

\* C29: in every state of the player index is at least 0 and at most
\* max(0, timeline.length - 1), the empty timeline of the initial load
\* included.
C29_IndexInRange == 0 <= index /\ index <= Max2(0, Len(tl) - 1)

\* what the code does hold to: over a timeline with points the cursor is in
\* range, and over the empty one it is 0 or, after a seekTo(f) with f above
\* 0, -1, which is floor(f * (0 - 1))
C29_IndexInRangeLoaded ==
    /\ timeline # NoPoints => (0 <= index /\ index <= Len(tl) - 1)
    /\ timeline = NoPoints => index \in {0 - 1, 0}

----------------------------------------------------------------------------
(* One acquisition at a time *)

\* C30: the player of the component has at most one fetchLive() outstanding:
\* from the mount on loading is set exactly while one is, and a data tick
\* that finds loading set leaves the counter, the cursor, the snapshot and
\* the acquisitions as they were, so that no completion finds another
\* acquisition started after its own.
C30_OneOutstanding ==
    /\ [](pending <= 1)
    /\ [](mounted # "no" => (loading <=> pending = 1))
    /\ [][(loading /\ app'.op = "tick")
            => (~app'.published /\ UNCHANGED <<tickCount, index, dataRef, pending, timeline>>)]_vars
    /\ [][pending' < pending => pending' = 0]_vars

\* a data tick has found the re-fetch outstanding and done nothing
C30_Witness ==
    /\ app.op = "tick" /\ ~app.published /\ app.refetching
    /\ loading /\ pending = 1 /\ tickCount = 0 /\ index = 0

====
